---- MODULE Spec2Model ----
(***************************************************************************)
(* Model of the semantic search core of Contract_Process:                  *)
(*   api_interface.py      init_engine / process_file_for_search /         *)
(*                         search_query and the module globals             *)
(*   core/search_engine.py SemanticSearchEngine (__new__, __init__,        *)
(*                         load_document, search)                          *)
(* Threads call the outward interface.  A step is one statement that reads  *)
(* or writes shared state (module globals, the singleton's attributes); the *)
(* two operands of the guard of search are read in two steps.  The models   *)
(* (embedder, reranker) are deterministic score tables; provisioning, model *)
(* loading and the model calls may raise.                                   *)
(***************************************************************************)
EXTENDS Integers, Sequences, FiniteSets, TLC

\* ------------------------------------------------------------------ bounds
\* number of chunks of the largest document offered to the engine
MaxChunks == 12
\* largest top_k a caller passes
MaxTopK == 13
\* how many times the environment makes provisioning, a model load or a model
\* call raise
MaxFailures == 2

\* ------------------------------------------------------- program constants
\* retrieve_k = max(top_k, 10)
CoarseFloor == 10

\* None for an object reference (instance ids start at 1)
NoInstance == 0
\* None for doc_vectors; a tensor V is held as <<V>>
NoVectors == << >>
\* the lock is free
NoThread == "none"

\* ------------------------------------------------------------------ helpers
Max(a, b) == IF a >= b THEN a ELSE b
Min(a, b) == IF a <= b THEN a ELSE b
\* Python slice s[:k] (a negative k counts from the end)
Prefix(s, k) ==
    LET n == IF k >= 0 THEN Min(k, Len(s)) ELSE Max(Len(s) + k, 0)
    IN  SubSeq(s, 1, n)

\* --------------------------------------------------------------- the data
\* A Chunk (ingestion.py): text is a word code, metadata is <<>> for None and
\* <<j>> for {'row_index': j}.
Chunk(t, i, st, md) ==
    [text |-> t, original_index |-> i, source_type |-> st, metadata |-> md]

DocEmpty == << >>
DocA == << Chunk(1, 0, "paragraph", <<>>), Chunk(2, 1, "paragraph", <<>>),
           Chunk(3, 3, "paragraph", <<>>) >>
DocB == << Chunk(4, 0, "paragraph", <<>>), Chunk(5, 0, "table", <<0>>) >>
DocBig == [i \in 1..MaxChunks |-> Chunk(10 + i, i - 1, "paragraph", <<>>)]

\* faulty variant: no file makes process raise, an unreadable one has no chunks
ProcessSwallows(path) == [raises |-> "no", chunks |-> << >>]

\* Files offered to process_file_for_search and what DocProcessor.process makes
\* of them: a missing path, a legacy .doc, and .docx files with their chunks.
ProcessOutcome(path) ==
    CASE path = "missing.docx" -> [raises |-> "FileNotFoundError", chunks |-> << >>]
      [] path = "old.doc"      -> [raises |-> "ValueError", chunks |-> << >>]
      [] path = "empty.docx"   -> [raises |-> "no", chunks |-> DocEmpty]
      [] path = "a.docx"       -> [raises |-> "no", chunks |-> DocA]
      [] path = "b.docx"       -> [raises |-> "no", chunks |-> DocB]
      [] path = "big.docx"     -> [raises |-> "no", chunks |-> DocBig]

\* ---------------------------------------------------------- the two models
\* embedder.encode(text, normalize_embeddings=True): the unit vector of a text,
\* a code distinct from the text's own code.
Embed(t) == 100 + t
\* embedder.encode(texts, ...) of a batch: one row per text, in order
EncodeBatch(texts) == [i \in 1..Len(texts) |-> Embed(texts[i])]
ChunkTexts(cs) == [i \in 1..Len(cs) |-> cs[i].text]

\* cosine similarity of two unit vectors, in hundredths
CosSim(qv, dv) ==
    LET q == qv - 100
        t == dv - 100
    IN  IF q = t THEN 100
        ELSE IF q % 2 = 1 THEN 2 * t
        ELSE ((t * 5) % 13) * 3 - 20

\* reranker.predict on one [query, text] pair: a raw score, no fixed range
RerankScore(q, t) ==
    IF q = t THEN 50
    ELSE IF q % 2 = 1 THEN 0 - t
    ELSE t % 3

\* list.sort(key=lambda x: x[f], reverse=True): stable, descending
InsertDesc(sorted, x, f) ==
    LET p == Cardinality({i \in 1..Len(sorted) : sorted[i][f] >= x[f]})
    IN  SubSeq(sorted, 1, p) \o <<x>> \o SubSeq(sorted, p + 1, Len(sorted))
RECURSIVE SortDesc(_, _)
SortDesc(s, f) ==
    IF s = << >> THEN << >>
    ELSE InsertDesc(SortDesc(SubSeq(s, 1, Len(s) - 1), f), s[Len(s)], f)

\* util.semantic_search(query_vector, corpus, top_k=k)[0]: the k rows of the
\* corpus most similar to the query (all rows when k exceeds their number),
\* as {'corpus_id', 'score'} with corpus_id counted from 0, best first.
SemanticSearch(qv, corpus, k) ==
    LET all == [i \in 1..Len(corpus) |->
                   [corpus_id |-> i - 1, score |-> CosSim(qv, corpus[i])]]
    IN  SubSeq(SortDesc(all, "score"), 1, Max(0, Min(k, Len(corpus))))

\* ------------------------------------------------------------------- state
Threads == {"t1", "t2"}

VARIABLES
    \* api_interface.py module globals
    engine_instance,    \* _engine_instance: NoInstance or an instance id
    lock,               \* _lock: the thread holding it, or NoThread
    \* core/search_engine.py: the class attribute and the singleton's attributes
    cls_instance,       \* SemanticSearchEngine._instance
    initialized,        \* self._initialized
    embedder, reranker, \* self.embedder, self.reranker: "unset" or "loaded"
    chunks,             \* self.chunks
    doc_vectors,        \* self.doc_vectors: NoVectors or <<matrix>>
    \* each thread: the call it is in, its position and its locals
    op, pc, args, locals, result,
    \* the environment: failures injected so far, artifacts whose provisioning
    \* returned without error
    failures, provisioned,
    \* history: undisturbed[t] holds while t is in load_document or search and no
    \* other thread has written self.chunks or self.doc_vectors since t entered
    undisturbed, hist,
    \* the caller's record of its last search that returned: the arguments, the
    \* results and the engine state they were computed on
    remembered,
    \* core/ingestion.py: << >> or <<x>> with x the DocProcessor instance, the
    \* .docx file's content, the list process returned, and the text and the
    \* chunks of a direct _sliding_window call
    processor, document, produced, windowed,
    \* << >> or <<x>> with x the text and the results of a _clean_text call,
    \* and the _sliding_window call that is run statement by statement
    cleaned, loop,
    \* core/search_engine.py, _ensure_model_downloaded of one artifact: the
    \* local model directory (file -> size), the run in progress or just over,
    \* and what the run before it did
    local_dir, run, last_run,
    \* << >> or <<x>> with x the arguments and the result of a
    \* _resolve_download_workers call
    resolved

\* core/ingestion.py
ingestVars == << processor, document, produced, windowed, cleaned, loop >>
\* what lies outside the engine and the interface threads
provisionVars == << local_dir, run, last_run, resolved >>
auxVars == << remembered, ingestVars, provisionVars >>

\* the engine, the interface and the threads calling it
coreVars == << engine_instance, lock, cls_instance, initialized, embedder,
               reranker, chunks, doc_vectors, op, pc, args, locals, result,
               failures, provisioned, undisturbed, hist >>

vars == << coreVars, auxVars >>

engineVars == << cls_instance, initialized, embedder, reranker, chunks, doc_vectors >>

NoArgs == [path |-> "", text |-> 0, top_k |-> 0]
NoLocals == [chunks |-> << >>, embeddings |-> << >>, query_vector |-> 0,
             corpus |-> << >>, hits |-> << >>, cross_inp |-> << >>,
             model_calls |-> 0, old_chunks |-> << >>, old_vectors |-> NoVectors]
NoResult == [outcome |-> "none", handle |-> NoInstance, value |-> << >>,
             chunk_count |-> 0, model_calls |-> 0, state_kept |-> TRUE]

\* ------------------------- core/search_engine.py: _ensure_model_downloaded
\* A file of the local model directory is absent or has a size; the remote
\* list gives each file's size, or None.
Absent == 0
UnknownSize == 0
StaleSize == 1
FullSize == 2
DefaultWorkers == 4
WorkersCap == 8

\* the remote file list of the artifact, in the order model_info gives it
Manifest ==
    << [name |-> "config.json", size |-> FullSize],
       [name |-> "model.safetensors", size |-> FullSize],
       [name |-> "tokenizer.json", size |-> UnknownSize],
       [name |-> "README.md", size |-> FullSize] >>
FileNames == {Manifest[k].name : k \in 1..Len(Manifest)}
\* the contents the local model directory can have
Directories ==
    {d \in [FileNames -> {Absent, StaleSize, FullSize}] :
        d["tokenizer.json"] # StaleSize}

WeightFiles ==
    {"pytorch_model.bin", "model.safetensors", "model.bin", "model.onnx",
     "onnx/model.onnx"}
TokenizerFiles ==
    {"tokenizer.json", "tokenizer_config.json", "vocab.txt",
     "sentencepiece.bpe.model", "spiece.model"}
Exists(dir, name) == name \in DOMAIN dir /\ dir[name] # Absent

\* faulty variant: the configuration file alone makes the model complete
ConfigAlone(dir) == Exists(dir, "config.json")

\* _is_model_complete_offline
IsModelCompleteOffline(dir) ==
    /\ Exists(dir, "config.json")
    /\ \E candidate \in WeightFiles : Exists(dir, candidate)
    /\ \E candidate \in TokenizerFiles : Exists(dir, candidate)

IsMissing(dir, file) == ~Exists(dir, file.name)
\* faulty variant: a file whose remote size is unknown counts as mismatched
SizeMismatchOrUnknown(dir, file) ==
    Exists(dir, file.name) /\ dir[file.name] # file.size
IsSizeMismatch(dir, file) ==
    /\ Exists(dir, file.name)
    /\ file.size # UnknownSize
    /\ dir[file.name] # file.size

\* faulty variant: a file of the wrong size is not collected
CollectMissingOnly(dir, files) ==
    LET Missing(file) == ~Exists(dir, file.name)
        NameOf(fs) == [k \in 1..Len(fs) |-> fs[k].name]
    IN  NameOf(SelectSeq(files, Missing))

\* _collect_missing_files: to_download = missing_files + size_mismatch_files
CollectMissingFiles(dir, files) ==
    LET Missing(file) == IsMissing(dir, file)
        Mismatch(file) == IsSizeMismatch(dir, file)
        NameOf(fs) == [k \in 1..Len(fs) |-> fs[k].name]
    IN  NameOf(SelectSeq(files, Missing)) \o NameOf(SelectSeq(files, Mismatch))

\* os.getenv("MODEL_DOWNLOAD_WORKERS", "4"): not set, or a string that int()
\* parses to n, or one it rejects
EnvUnset == [set |-> FALSE, parses |-> TRUE, n |-> 0]
EnvInt(n) == [set |-> TRUE, parses |-> TRUE, n |-> n]
EnvJunk == [set |-> TRUE, parses |-> FALSE, n |-> 0]

\* faulty variant: the pool is not capped
ResolveWithoutCap(env, total_files) ==
    LET requested == IF ~env.set THEN DefaultWorkers
                     ELSE IF env.parses THEN env.n ELSE DefaultWorkers
    IN  IF total_files <= 0 THEN 1
        ELSE Min(Max(1, requested), total_files)

\* _resolve_download_workers
ResolveDownloadWorkers(env, total_files) ==
    LET requested == IF ~env.set THEN DefaultWorkers
                     ELSE IF env.parses THEN env.n ELSE DefaultWorkers
    IN  IF total_files <= 0 THEN 1
        ELSE Min(Max(1, requested), Min(total_files, WorkersCap))

NoTasks == [f \in FileNames |-> "none"]
NoRun ==
    [pc |-> "idle", env |-> EnvUnset, remote_ok |-> FALSE,
     files_to_download |-> << >>, task |-> NoTasks, seen |-> {},
     completed |-> 0, snapshot |-> FALSE]
NoLastRun == [outcome |-> "none", remote_ok |-> FALSE, fetched |-> {}]

NoMemory ==
    [valid |-> FALSE, text |-> 0, top_k |-> 0, value |-> << >>,
     chunks |-> << >>, doc_vectors |-> NoVectors]

Init ==
    /\ engine_instance = NoInstance
    /\ lock = NoThread
    /\ cls_instance = NoInstance
    /\ initialized = FALSE
    /\ embedder = "unset"
    /\ reranker = "unset"
    /\ chunks = << >>
    /\ doc_vectors = NoVectors
    /\ op = [t \in Threads |-> "idle"]
    /\ pc = [t \in Threads |-> "idle"]
    /\ args = [t \in Threads |-> NoArgs]
    /\ locals = [t \in Threads |-> NoLocals]
    /\ result = [t \in Threads |-> NoResult]
    /\ failures = 0
    /\ provisioned = {}
    /\ undisturbed = [t \in Threads |-> FALSE]
    /\ hist = [body_runs |-> 0, body_ok |-> 0, late_runs |-> 0,
               handles |-> {}, load_called |-> FALSE,
               last_load |-> [path |-> "", outcome |-> "none", alone |-> TRUE],
               replaced |-> FALSE]
    /\ remembered = NoMemory
    /\ processor = << >>
    /\ document = << >>
    /\ produced = << >>
    /\ windowed = << >>
    /\ cleaned = << >>
    /\ loop = << >>
    /\ resolved = << >>
    /\ local_dir = [f \in FileNames |-> Absent]
    /\ run = NoRun
    /\ last_run = NoLastRun

\* a call ends with `outcome` ("ok", or the name of the exception that reaches
\* the caller); the thread holds the result `r` until it takes it (Return)
Finish(t, outcome, r) ==
    /\ pc' = [pc EXCEPT ![t] = "done"]
    /\ result' = [result EXCEPT ![t] = [r EXCEPT !.outcome = outcome]]
    /\ locals' = [locals EXCEPT ![t] = NoLocals]
    /\ UNCHANGED auxVars

\* t moves on to the statement at `label`; a step inside a call touches
\* nothing outside the engine and the interface threads
Goto(t, label) == pc' = [pc EXCEPT ![t] = label] /\ UNCHANGED auxVars

\* the environment may make a provisioning run, a model load or an encode
\* call raise
MayFail == failures < MaxFailures

\* ------------------------------------------------ api_interface.init_engine
InBody(t) == pc[t] \in {"init202", "init207", "init222", "init226", "init238"}

CallInitEngine(t) ==
    /\ pc[t] = "idle"
    /\ op' = [op EXCEPT ![t] = "init_engine"]
    /\ Goto(t, "ie25")
    /\ UNCHANGED << engine_instance, lock, engineVars, args, locals, result,
                    failures, provisioned, undisturbed, hist >>

\* with _lock: blocks while another thread holds the lock
\* (faulty variant: the block is entered without waiting for the lock)
AcquireUnlocked(t) == TRUE
CanAcquire(t) == lock = NoThread

IE_Acquire(t) ==
    /\ pc[t] = "ie25"
    /\ CanAcquire(t)
    /\ lock' = t
    /\ Goto(t, "ie26")
    /\ UNCHANGED << engine_instance, engineVars, op, args, locals, result,
                    failures, provisioned, undisturbed, hist >>

\* if _engine_instance is None:
IE_Check(t) ==
    /\ pc[t] = "ie26"
    /\ Goto(t, IF engine_instance = NoInstance THEN "new16" ELSE "ie_exit")
    /\ UNCHANGED << engine_instance, lock, engineVars, op, args, locals, result,
                    failures, provisioned, undisturbed, hist >>

\* SemanticSearchEngine.__new__: the one instance of the class, made on the
\* first call with _initialized = False
New(t) ==
    /\ pc[t] = "new16"
    /\ IF cls_instance = NoInstance
       THEN cls_instance' = 1 /\ initialized' = FALSE
       ELSE UNCHANGED << cls_instance, initialized >>
    /\ Goto(t, "init189")
    /\ UNCHANGED << engine_instance, lock, embedder, reranker, chunks, doc_vectors,
                    op, args, locals, result, failures, provisioned, undisturbed,
                    hist >>

\* __init__: if self._initialized: return
Init189(t) ==
    /\ pc[t] = "init189"
    /\ IF initialized
       THEN Goto(t, "ie27") /\ UNCHANGED hist
       ELSE /\ Goto(t, "init202")
            /\ hist' = [hist EXCEPT !.body_runs = @ + 1,
                                    !.late_runs = @ + (IF hist.body_ok > 0 THEN 1 ELSE 0)]
    /\ UNCHANGED << engine_instance, lock, engineVars, op, args, locals, result,
                    failures, provisioned, undisturbed >>

\* an exception leaves __init__ (print and re-raise)
\* (faulty variant: the handler prints and does not re-raise)
InitSwallows(t, next) == Goto(t, next)
InitRaises(t, next) == Goto(t, "ie_raise")

\* self._ensure_model_downloaded(repo, path): returns, or raises
Provision(t, here, artifact, next) ==
    /\ pc[t] = here
    /\ \/ /\ provisioned' = provisioned \cup {artifact}
          /\ Goto(t, next)
          /\ UNCHANGED failures
       \/ /\ MayFail
          /\ failures' = failures + 1
          /\ InitRaises(t, next)
          /\ UNCHANGED provisioned
    /\ UNCHANGED << engine_instance, lock, engineVars, op, args, locals, result,
                    undisturbed, hist >>

Init202(t) == Provision(t, "init202", "bge-m3", "init207")
Init222(t) == Provision(t, "init222", "bge-reranker-large", "init226")

\* self.embedder = SentenceTransformer(embedding_path, device="cpu")
Init207(t) ==
    /\ pc[t] = "init207"
    /\ \/ /\ embedder' = "loaded"
          /\ Goto(t, "init222")
          /\ UNCHANGED failures
       \/ /\ MayFail
          /\ failures' = failures + 1
          /\ InitRaises(t, "init222")
          /\ UNCHANGED embedder
    /\ UNCHANGED << engine_instance, lock, cls_instance, initialized, reranker,
                    chunks, doc_vectors, op, args, locals, result, provisioned,
                    undisturbed, hist >>

\* self.reranker = CrossEncoder(reranker_path, device="cpu")
Init226(t) ==
    /\ pc[t] = "init226"
    /\ \/ /\ reranker' = "loaded"
          /\ Goto(t, "init238")
          /\ UNCHANGED failures
       \/ /\ MayFail
          /\ failures' = failures + 1
          /\ InitRaises(t, "init238")
          /\ UNCHANGED reranker
    /\ UNCHANGED << engine_instance, lock, cls_instance, initialized, embedder,
                    chunks, doc_vectors, op, args, locals, result, provisioned,
                    undisturbed, hist >>

\* self.chunks = []; self.doc_vectors = None; self._initialized = True
Init238(t) ==
    /\ pc[t] = "init238"
    /\ chunks' = << >>
    /\ doc_vectors' = NoVectors
    /\ initialized' = TRUE
    /\ hist' = [hist EXCEPT !.body_ok = @ + 1]
    /\ Goto(t, "ie27")
    /\ UNCHANGED << engine_instance, lock, cls_instance, embedder, reranker, op,
                    args, locals, result, failures, provisioned, undisturbed >>

\* _engine_instance = <the constructed engine>
IE_Assign(t) ==
    /\ pc[t] = "ie27"
    /\ engine_instance' = cls_instance
    /\ Goto(t, "ie_exit")
    /\ UNCHANGED << lock, engineVars, op, args, locals, result, failures,
                    provisioned, undisturbed, hist >>

\* the with block is left normally: the lock is released
IE_Exit(t) ==
    /\ pc[t] = "ie_exit"
    /\ lock' = NoThread
    /\ Goto(t, "ie28")
    /\ UNCHANGED << engine_instance, engineVars, op, args, locals, result,
                    failures, provisioned, undisturbed, hist >>

\* the with block is left by the exception: the lock is released and the
\* exception reaches the caller of init_engine, and through
\* process_file_for_search (which has no handler) its caller
IE_Raise(t) ==
    /\ pc[t] = "ie_raise"
    /\ lock' = NoThread
    /\ Finish(t, "InitError", [NoResult EXCEPT !.handle = engine_instance])
    /\ UNCHANGED << engine_instance, engineVars, op, args, failures, provisioned,
                    undisturbed, hist >>

\* return _engine_instance
IE_Return(t) ==
    /\ pc[t] = "ie28"
    /\ IF op[t] = "init_engine"
       THEN /\ Finish(t, "ok", [NoResult EXCEPT !.handle = engine_instance])
            /\ hist' = [hist EXCEPT !.handles = @ \cup {engine_instance}]
       ELSE /\ Goto(t, "pf150")
            /\ UNCHANGED << locals, result, hist >>
    /\ UNCHANGED << engine_instance, lock, engineVars, op, args, failures,
                    provisioned, undisturbed >>

\* the caller takes the result of its call
Return(t) ==
    /\ pc[t] = "done"
    /\ pc' = [pc EXCEPT ![t] = "idle"]
    /\ op' = [op EXCEPT ![t] = "idle"]
    /\ args' = [args EXCEPT ![t] = NoArgs]
    /\ result' = [result EXCEPT ![t] = NoResult]
    /\ undisturbed' = [undisturbed EXCEPT ![t] = FALSE]
    /\ UNCHANGED << engine_instance, lock, engineVars, locals, failures,
                    provisioned, hist, auxVars >>

\* the caller takes the result of its call and keeps the results of a search
\* that returned, to compare them with those of its next searches
ReturnRemember(t) ==
    /\ pc[t] = "done"
    /\ pc' = [pc EXCEPT ![t] = "idle"]
    /\ op' = [op EXCEPT ![t] = "idle"]
    /\ args' = [args EXCEPT ![t] = NoArgs]
    /\ result' = [result EXCEPT ![t] = NoResult]
    /\ undisturbed' = [undisturbed EXCEPT ![t] = FALSE]
    /\ remembered' =
          IF op[t] = "search_query" /\ result[t].outcome = "ok"
          THEN [valid |-> TRUE, text |-> args[t].text, top_k |-> args[t].top_k,
                value |-> result[t].value, chunks |-> chunks,
                doc_vectors |-> doc_vectors]
          ELSE remembered
    /\ UNCHANGED << engine_instance, lock, engineVars, locals, failures,
                    provisioned, hist, ingestVars, provisionVars >>

\* ------------------------------------- api_interface.process_file_for_search
Paths == {"missing.docx", "old.doc", "empty.docx", "a.docx", "b.docx", "big.docx"}
InLoad(t) == pc[t] \in {"ld246", "ld249", "ld256", "ld263"}
InSearch(t) == pc[t] \in {"s269", "s269v", "s274", "s294", "s298", "s303", "s316"}

\* a write of self.chunks or self.doc_vectors by t disturbs every other thread
\* that is in (or holds the result of) load_document or search
Disturb(t) == undisturbed' = [u \in Threads |-> undisturbed[u] /\ u = t]

CallProcessFile(t, path) ==
    /\ pc[t] = "idle"
    /\ op' = [op EXCEPT ![t] = "process_file_for_search"]
    /\ args' = [args EXCEPT ![t] = [NoArgs EXCEPT !.path = path]]
    /\ Goto(t, "pf147")
    /\ UNCHANGED << engine_instance, lock, engineVars, locals, result, failures,
                    provisioned, undisturbed, hist >>

\* if _engine_instance is None: init_engine()
PF_Check(t) ==
    /\ pc[t] = "pf147"
    /\ Goto(t, IF engine_instance = NoInstance THEN "ie25" ELSE "pf150")
    /\ UNCHANGED << engine_instance, lock, engineVars, op, args, locals, result,
                    failures, provisioned, undisturbed, hist >>

\* chunks = _processor.process(file_path)
PF_Process(t) ==
    /\ pc[t] = "pf150"
    /\ LET out == ProcessOutcome(args[t].path)
       IN  IF out.raises # "no"
           THEN Finish(t, out.raises, NoResult)
           ELSE /\ locals' = [locals EXCEPT ![t].chunks = out.chunks]
                /\ Goto(t, "pf151")
                /\ UNCHANGED result
    /\ UNCHANGED << engine_instance, lock, engineVars, op, args, failures,
                    provisioned, undisturbed, hist >>

\* _engine_instance.load_document(chunks): the call is entered
PF_CallLoad(t) ==
    /\ pc[t] = "pf151"
    /\ locals' = [locals EXCEPT ![t].old_chunks = chunks,
                                ![t].old_vectors = doc_vectors]
    /\ undisturbed' = [undisturbed EXCEPT ![t] = TRUE]
    /\ hist' = [hist EXCEPT !.load_called = TRUE]
    /\ Goto(t, "ld246")
    /\ UNCHANGED << engine_instance, lock, engineVars, op, args, result, failures,
                    provisioned >>

\* --------------------------------------- SemanticSearchEngine.load_document
\* the load_document call of t ends with `outcome`
LoadEnds(t, outcome) ==
    hist' = [hist EXCEPT
               !.last_load = [path |-> args[t].path, outcome |-> outcome,
                              alone |-> undisturbed[t]],
               !.replaced = outcome = "ok" /\ locals[t].old_chunks # << >>
                                /\ locals[t].old_chunks # locals[t].chunks]

\* self.chunks = chunks: the new list takes the place of the old one
\* (faulty variant: self.chunks.extend(chunks))
MergedChunks(old, new) == old \o new
AssignedChunks(old, new) == new

LD_SetChunks(t) ==
    /\ pc[t] = "ld246"
    /\ chunks' = AssignedChunks(chunks, locals[t].chunks)
    /\ Disturb(t)
    /\ Goto(t, "ld249")
    /\ UNCHANGED << engine_instance, lock, cls_instance, initialized, embedder,
                    reranker, doc_vectors, op, args, locals, result, failures,
                    provisioned, hist >>

\* if not texts: self.doc_vectors = None; return
\* (faulty variant: return without clearing the vectors)
VectorsKept == doc_vectors
VectorsForNoTexts == NoVectors

LD_Empty(t) ==
    /\ pc[t] = "ld249"
    /\ IF ChunkTexts(locals[t].chunks) = << >>
       THEN /\ doc_vectors' = VectorsForNoTexts
            /\ Disturb(t)
            /\ LoadEnds(t, "ok")
            /\ Goto(t, "pf152")
       ELSE /\ Goto(t, "ld256")
            /\ UNCHANGED << doc_vectors, undisturbed, hist >>
    /\ UNCHANGED << engine_instance, lock, cls_instance, initialized, embedder,
                    reranker, chunks, op, args, locals, result, failures,
                    provisioned >>

\* embeddings = self.embedder.encode(texts, ...): returns one row per text, or
\* raises; the exception leaves load_document and process_file_for_search
LD_Encode(t) ==
    /\ pc[t] = "ld256"
    /\ \/ /\ locals' = [locals EXCEPT ![t].embeddings =
                                      EncodeBatch(ChunkTexts(locals[t].chunks))]
          /\ Goto(t, "ld263")
          /\ UNCHANGED << result, failures, hist >>
       \/ /\ MayFail
          /\ failures' = failures + 1
          /\ LoadEnds(t, "EncodeError")
          /\ Finish(t, "EncodeError",
                    [NoResult EXCEPT !.state_kept =
                        /\ chunks = locals[t].old_chunks
                        /\ doc_vectors = locals[t].old_vectors])
    /\ UNCHANGED << engine_instance, lock, engineVars, op, args, provisioned,
                    undisturbed >>

\* self.doc_vectors = embeddings
LD_SetVectors(t) ==
    /\ pc[t] = "ld263"
    /\ doc_vectors' = << locals[t].embeddings >>
    /\ Disturb(t)
    /\ LoadEnds(t, "ok")
    /\ Goto(t, "pf152")
    /\ UNCHANGED << engine_instance, lock, cls_instance, initialized, embedder,
                    reranker, chunks, op, args, locals, result, failures,
                    provisioned >>

\* return {"status": "success", "chunk_count": len(chunks)}
PF_Return(t) ==
    /\ pc[t] = "pf152"
    /\ Finish(t, "ok", [NoResult EXCEPT !.chunk_count = Len(locals[t].chunks)])
    /\ UNCHANGED << engine_instance, lock, engineVars, op, args, failures,
                    provisioned, undisturbed, hist >>

\* ------------------------------------------------ api_interface.search_query
CallSearchQuery(t, text, top_k) ==
    /\ pc[t] = "idle"
    /\ op' = [op EXCEPT ![t] = "search_query"]
    /\ args' = [args EXCEPT ![t] = [NoArgs EXCEPT !.text = text, !.top_k = top_k]]
    /\ Goto(t, "sq155")
    /\ UNCHANGED << engine_instance, lock, engineVars, locals, result, failures,
                    provisioned, undisturbed, hist >>

\* if _engine_instance is None: raise RuntimeError; else the search call is
\* entered
SQ_Check(t) ==
    /\ pc[t] = "sq155"
    /\ IF engine_instance = NoInstance
       THEN /\ Finish(t, "RuntimeError", NoResult)
            /\ UNCHANGED undisturbed
       ELSE /\ Goto(t, "s269")
            /\ undisturbed' = [undisturbed EXCEPT ![t] = \A u \in Threads : ~InLoad(u)]
            /\ UNCHANGED << locals, result >>
    /\ UNCHANGED << engine_instance, lock, engineVars, op, args, failures,
                    provisioned, hist >>

\* ------------------------------------------------ SemanticSearchEngine.search
SearchResult(calls, value) == [NoResult EXCEPT !.model_calls = calls, !.value = value]

\* if not self.chunks ...: return []
\* (faulty variant: the query is encoded before the guard is evaluated)
S_GuardAfterEncode(t) ==
    /\ pc[t] = "s269"
    /\ IF chunks = << >>
       THEN Finish(t, "ok", SearchResult(locals[t].model_calls + 1, << >>))
       ELSE /\ Goto(t, "s269v")
            /\ locals' = [locals EXCEPT ![t].model_calls = @ + 1]
            /\ UNCHANGED result
    /\ UNCHANGED << engine_instance, lock, engineVars, op, args, failures,
                    provisioned, undisturbed, hist >>

S_GuardChunks(t) ==
    /\ pc[t] = "s269"
    /\ IF chunks = << >>
       THEN Finish(t, "ok", SearchResult(locals[t].model_calls, << >>))
       ELSE Goto(t, "s269v") /\ UNCHANGED << locals, result >>
    /\ UNCHANGED << engine_instance, lock, engineVars, op, args, failures,
                    provisioned, undisturbed, hist >>

\* ... or self.doc_vectors is None: return []
S_GuardVectors(t) ==
    /\ pc[t] = "s269v"
    /\ IF doc_vectors = NoVectors
       THEN Finish(t, "ok", SearchResult(locals[t].model_calls, << >>))
       ELSE Goto(t, "s274") /\ UNCHANGED << locals, result >>
    /\ UNCHANGED << engine_instance, lock, engineVars, op, args, failures,
                    provisioned, undisturbed, hist >>

\* query_vector = self.embedder.encode(query, ...): returns the vector, or
\* raises
S_EncodeQuery(t) ==
    /\ pc[t] = "s274"
    /\ \/ /\ locals' = [locals EXCEPT ![t].query_vector = Embed(args[t].text),
                                      ![t].model_calls = @ + 1]
          /\ Goto(t, "s294")
          /\ UNCHANGED << result, failures >>
       \/ /\ MayFail
          /\ failures' = failures + 1
          /\ Finish(t, "EncodeError", SearchResult(locals[t].model_calls + 1, << >>))
    /\ UNCHANGED << engine_instance, lock, engineVars, op, args, provisioned,
                    undisturbed, hist >>

\* faulty variant: the coarse stage retrieves top_k hits, without the floor
RetrieveTopK(top_k) == top_k
\* retrieve_k = max(top_k, 10)
RetrieveK(top_k) == Max(top_k, CoarseFloor)

\* hits = util.semantic_search(query_vector, self.doc_vectors,
\*                             top_k=min(retrieve_k, len(self.chunks)))[0]
\* (a corpus of None makes semantic_search raise)
S_Coarse(t) ==
    /\ pc[t] = "s294"
    /\ IF doc_vectors = NoVectors
       THEN Finish(t, "SemanticSearchError",
                   SearchResult(locals[t].model_calls, << >>))
       ELSE /\ locals' = [locals EXCEPT
                   ![t].corpus = doc_vectors[1],
                   ![t].hits = SemanticSearch(locals[t].query_vector, doc_vectors[1],
                                   Min(RetrieveK(args[t].top_k), Len(chunks)))]
            /\ Goto(t, "s298")
            /\ UNCHANGED result
    /\ UNCHANGED << engine_instance, lock, engineVars, op, args, failures,
                    provisioned, undisturbed, hist >>

\* cross_inp = [[query, self.chunks[hit['corpus_id']].text] for hit in hits]
\* if not cross_inp: return []
S_Pairs(t) ==
    /\ pc[t] = "s298"
    /\ LET hits == locals[t].hits
       IN  IF \E i \in 1..Len(hits) : hits[i].corpus_id >= Len(chunks)
           THEN Finish(t, "IndexError", SearchResult(locals[t].model_calls, << >>))
           ELSE IF hits = << >>
           THEN Finish(t, "ok", SearchResult(locals[t].model_calls, << >>))
           ELSE /\ locals' = [locals EXCEPT ![t].cross_inp =
                       [i \in 1..Len(hits) |->
                           << args[t].text, chunks[hits[i].corpus_id + 1].text >>]]
                /\ Goto(t, "s303")
                /\ UNCHANGED result
    /\ UNCHANGED << engine_instance, lock, engineVars, op, args, failures,
                    provisioned, undisturbed, hist >>

\* cross_scores = self.reranker.predict(cross_inp): one score per pair, in order
Predict(cross_inp) ==
    [i \in 1..Len(cross_inp) |-> RerankScore(cross_inp[i][1], cross_inp[i][2])]

\* hits[idx]['cross_score'] = score, for every idx
WithCrossScores(hits, cross_scores) ==
    [i \in 1..Len(hits) |->
        [corpus_id |-> hits[i].corpus_id, score |-> hits[i].score,
         cross_score |-> cross_scores[i]]]

\* hits.sort(key=lambda x: x['cross_score'], reverse=True)
\* (faulty variant: the sort key is the coarse score)
SortHitsByCoarse(hits) == SortDesc(hits, "score")
SortHits(hits) == SortDesc(hits, "cross_score")

\* final_hits = hits[:top_k]
\* (faulty variant: no truncation)
AllHits(hits, top_k) == hits
FinalHits(hits, top_k) == Prefix(hits, top_k)

\* predict (which may raise), combine, sort, truncate: local to the call
S_Rerank(t) ==
    /\ pc[t] = "s303"
    /\ \/ /\ locals' = [locals EXCEPT
                 ![t].hits = FinalHits(SortHits(WithCrossScores(locals[t].hits,
                                 Predict(locals[t].cross_inp))), args[t].top_k),
                 ![t].cross_inp = << >>,
                 ![t].corpus = << >>,
                 ![t].model_calls = @ + 1]
          /\ Goto(t, "s316")
          /\ UNCHANGED << result, failures >>
       \/ /\ MayFail
          /\ failures' = failures + 1
          /\ Finish(t, "PredictError", SearchResult(locals[t].model_calls + 1, << >>))
    /\ UNCHANGED << engine_instance, lock, engineVars, op, args, provisioned,
                    undisturbed, hist >>

\* one result per final hit, built from self.chunks[hit['corpus_id']]
ResultOf(chunk, hit) ==
    [text |-> chunk.text, original_index |-> chunk.original_index,
     source_type |-> chunk.source_type, metadata |-> chunk.metadata,
     score |-> hit.cross_score, initial_score |-> hit.score]

\* faulty variant: the engine keeps only the chunks it returned
S_ResultsKeepingHits(t) ==
    /\ pc[t] = "s316"
    /\ LET hits == locals[t].hits
       IN  /\ \A i \in 1..Len(hits) : hits[i].corpus_id < Len(chunks)
           /\ chunks' = [i \in 1..Len(hits) |-> chunks[hits[i].corpus_id + 1]]
           /\ Finish(t, "ok", SearchResult(locals[t].model_calls,
                    [i \in 1..Len(hits) |->
                        ResultOf(chunks[hits[i].corpus_id + 1], hits[i])]))
    /\ UNCHANGED << engine_instance, lock, cls_instance, initialized, embedder,
                    reranker, doc_vectors, op, args, failures, provisioned,
                    undisturbed, hist >>

S_Results(t) ==
    /\ pc[t] = "s316"
    /\ LET hits == locals[t].hits
       IN  IF \E i \in 1..Len(hits) : hits[i].corpus_id >= Len(chunks)
           THEN Finish(t, "IndexError", SearchResult(locals[t].model_calls, << >>))
           ELSE Finish(t, "ok", SearchResult(locals[t].model_calls,
                    [i \in 1..Len(hits) |->
                        ResultOf(chunks[hits[i].corpus_id + 1], hits[i])]))
    /\ UNCHANGED << engine_instance, lock, engineVars, op, args, failures,
                    provisioned, undisturbed, hist >>

\* ------------------------------------------------------------ specifications
InitEngineStep(t) ==
    \/ CallInitEngine(t) \/ IE_Acquire(t) \/ IE_Check(t) \/ New(t) \/ Init189(t)
    \/ Init202(t) \/ Init207(t) \/ Init222(t) \/ Init226(t) \/ Init238(t)
    \/ IE_Assign(t) \/ IE_Exit(t) \/ IE_Raise(t) \/ IE_Return(t)
    \/ Return(t)

ProcessFileStep(t, paths) ==
    \/ \E path \in paths : CallProcessFile(t, path)
    \/ PF_Check(t) \/ PF_Process(t) \/ PF_CallLoad(t) \/ LD_SetChunks(t)
    \/ LD_Empty(t) \/ LD_Encode(t) \/ LD_SetVectors(t) \/ PF_Return(t)

SearchQueryStep(t, queries, topks) ==
    \/ \E text \in queries, top_k \in topks : CallSearchQuery(t, text, top_k)
    \/ SQ_Check(t) \/ S_GuardChunks(t) \/ S_GuardVectors(t) \/ S_EncodeQuery(t)
    \/ S_Coarse(t) \/ S_Pairs(t) \/ S_Rerank(t) \/ S_Results(t)

\* One caller uses the interface, one call after the other, in any order.
Queries == {1, 12}
TopKs == (0 - 1)..MaxTopK

Next ==
    \/ InitEngineStep("t1")
    \/ ProcessFileStep("t1", Paths)
    \/ SearchQueryStep("t1", Queries, TopKs)

Spec == Init /\ [][Next]_vars

\* Two threads use the interface at once: t1 initializes and loads documents,
\* t2 initializes and searches.
ConcPaths == {"missing.docx", "empty.docx", "a.docx", "b.docx"}
ConcQueries == {1}
ConcTopKs == {1, 2}

ConcNext ==
    \/ InitEngineStep("t1")
    \/ ProcessFileStep("t1", ConcPaths)
    \/ InitEngineStep("t2")
    \/ SearchQueryStep("t2", ConcQueries, ConcTopKs)

ConcSpec == Init /\ [][ConcNext]_vars

\* One caller loads documents and repeats searches, keeping the results of each
\* search that returned.
RepeatPaths == {"a.docx", "big.docx"}
RepeatTopKs == {1, 3, MaxTopK}

RepeatNext ==
    \/ CallInitEngine("t1") \/ IE_Acquire("t1") \/ IE_Check("t1") \/ New("t1")
    \/ Init189("t1") \/ Init202("t1") \/ Init207("t1") \/ Init222("t1")
    \/ Init226("t1") \/ Init238("t1") \/ IE_Assign("t1") \/ IE_Exit("t1")
    \/ IE_Raise("t1") \/ IE_Return("t1")
    \/ ProcessFileStep("t1", RepeatPaths)
    \/ SearchQueryStep("t1", Queries, RepeatTopKs)
    \/ ReturnRemember("t1")

RepeatSpec == Init /\ [][RepeatNext]_vars

\* ------------------------------------------------- core/ingestion.py: texts
\* A text is a sequence of characters.
MaxSentences == 5
MaxParagraphs == 2
MaxWindow == 3
SmallMaxChars == 4
DefaultMaxChars == 400

Whitespace == {" ", "\n"}
SentenceEnds == {".", "!", "?"}

RECURSIVE LStrip(_)
LStrip(s) ==
    IF s # << >> /\ Head(s) \in Whitespace THEN LStrip(Tail(s)) ELSE s
RECURSIVE RStrip(_)
RStrip(s) ==
    IF s # << >> /\ s[Len(s)] \in Whitespace
    THEN RStrip(SubSeq(s, 1, Len(s) - 1)) ELSE s
\* faulty variant: only leading whitespace is removed
StripLeft(s) == LStrip(s)
\* str.strip()
Strip(s) == RStrip(LStrip(s))

\* re.sub(r'\s+', ' ', text): every run of whitespace becomes one space
RECURSIVE CollapseWhitespace(_)
CollapseWhitespace(s) ==
    IF s = << >> THEN << >>
    ELSE IF Head(s) \in Whitespace
         THEN << " " >> \o CollapseWhitespace(LStrip(s))
         ELSE << Head(s) >> \o CollapseWhitespace(Tail(s))

\* DocProcessor._clean_text
CleanText(text) == Strip(CollapseWhitespace(text))

\* re.split(r'(?<=[.!?])\s+', text): `cur` is the piece read so far; a run of
\* whitespace that follows a sentence end closes the piece
RECURSIVE SplitAfterSentenceEnd(_, _)
SplitAfterSentenceEnd(s, cur) ==
    IF s = << >> THEN << cur >>
    ELSE IF Head(s) \in Whitespace /\ cur # << >> /\ cur[Len(cur)] \in SentenceEnds
         THEN << cur >> \o SplitAfterSentenceEnd(LStrip(s), << >>)
         ELSE SplitAfterSentenceEnd(Tail(s), Append(cur, Head(s)))

NotBlank(s) == Strip(s) # << >>

\* the sentences of a text: the pieces of the split that are not blank
Sentences(text) == SelectSeq(SplitAfterSentenceEnd(text, << >>), NotBlank)

\* sep.join(parts)
RECURSIVE Join(_, _)
Join(parts, sep) ==
    IF parts = << >> THEN << >>
    ELSE IF Len(parts) = 1 THEN parts[1]
    ELSE parts[1] \o sep \o Join(Tail(parts), sep)

\* s[a:b] for 0 <= a and 0 <= b
Slice(s, a, b) == SubSeq(s, a + 1, Min(b, Len(s)))

\* faulty variant: the stride is not floored at 1
StrideUnfloored(p) == p.window_size - p.overlap
\* faulty variant: the stride steps over one sentence after each window
StridePastWindow(p) == p.window_size + 1
\* faulty variant: the stride is the whole window
StrideOfWindow(p) == Max(1, p.window_size)
\* stride = max(1, self.window_size - self.overlap)
Stride(p) == Max(1, p.window_size - p.overlap)

\* the loop of _sliding_window from index i on
RECURSIVE WindowLoop(_, _, _, _, _)
WindowLoop(p, sentences, i, index, source_type) ==
    IF i >= Len(sentences) THEN << >>
    ELSE LET chunk_text == Join(Slice(sentences, i, i + p.window_size), << " " >>)
         IN  (IF chunk_text # << >>
              THEN << Chunk(chunk_text, index, source_type, << >>) >>
              ELSE << >>)
             \o (IF i + p.window_size >= Len(sentences) THEN << >>
                 ELSE WindowLoop(p, sentences, i + Stride(p), index, source_type))

\* DocProcessor._sliding_window
SlidingWindow(p, text, index, source_type) ==
    LET sentences == Sentences(text)
    IN  IF sentences = << >> THEN << >>
        ELSE IF Len(sentences) <= p.window_size
             THEN << Chunk(text, index, source_type, << >>) >>
             ELSE WindowLoop(p, sentences, 0, index, source_type)

\* faulty variant: paragraphs are numbered among the kept ones only
IndexAmongKept(i, kept) == kept
\* enumerate(doc.paragraphs): the index of a paragraph counts every paragraph
ParagraphIndex(i, kept) == i

\* faulty variant: every paragraph goes through the window splitter
AlwaysTooLong(p, text) == TRUE
\* if len(text) > self.max_chars
TooLong(p, text) == Len(text) > p.max_chars

\* the chunks of the paragraphs from the i-th (0-based) on; `kept` paragraphs
\* before it were not empty
RECURSIVE ParagraphChunks(_, _, _, _)
ParagraphChunks(p, paragraphs, i, kept) ==
    IF i >= Len(paragraphs) THEN << >>
    ELSE LET text == CleanText(paragraphs[i + 1])
             index == ParagraphIndex(i, kept)
         IN  IF text = << >>
             THEN ParagraphChunks(p, paragraphs, i + 1, kept)
             ELSE (IF TooLong(p, text)
                   THEN SlidingWindow(p, text, index, "paragraph")
                   ELSE << Chunk(text, index, "paragraph", << >>) >>)
                  \o ParagraphChunks(p, paragraphs, i + 1, kept + 1)

\* " | ".join(cell_texts) of the cleaned cell texts of a row
RowText(row) == Join([k \in 1..Len(row) |-> CleanText(row[k])], << " ", "|", " " >>)
IsNotPipe(c) == c # "|"
\* faulty variant: no row is taken for empty
NoRowSkipped(row_text) == FALSE
\* not self._clean_text(row_text).replace('|', '').strip()
RowIsEmpty(row_text) == Strip(SelectSeq(CleanText(row_text), IsNotPipe)) = << >>

\* the chunks of the rows of table i from the j-th (0-based) on
RECURSIVE RowChunks(_, _, _)
RowChunks(table, i, j) ==
    IF j >= Len(table) THEN << >>
    ELSE LET row_text == RowText(table[j + 1])
         IN  (IF RowIsEmpty(row_text) THEN << >>
              ELSE << Chunk(row_text, i, "table", << j >>) >>)
             \o RowChunks(table, i, j + 1)

RECURSIVE TableChunks(_, _)
TableChunks(tables, i) ==
    IF i >= Len(tables) THEN << >>
    ELSE RowChunks(tables[i + 1], i, 0) \o TableChunks(tables, i + 1)

\* faulty variant: the table loop runs before the paragraph loop
TablesFirst(paragraph_chunks, table_chunks) == table_chunks \o paragraph_chunks
\* the paragraph loop appends to `chunks` before the table loop does
InLoopOrder(paragraph_chunks, table_chunks) == paragraph_chunks \o table_chunks

\* DocProcessor.process on a file with content d
Process(p, d) ==
    InLoopOrder(ParagraphChunks(p, d.paragraphs, 0, 0), TableChunks(d.tables, 0))

\* ---------------------------------------------- core/ingestion.py: the inputs
Letters == << "a", "b", "c", "d", "e", "f", "g", "h" >>
Marks == << ".", "!", "?" >>
\* the k-th sentence of the test texts: a letter and a sentence end
Sentence(k) == << Letters[k], Marks[(k % 3) + 1] >>
\* a text of n sentences, separated by `gap`
SentenceText(n, gap) == Join([k \in 1..n |-> Sentence(k)], gap)

\* paragraph texts: blank, two words with stray whitespace, one sentence, and
\* the three longest texts of up to MaxSentences sentences
ParagraphTexts ==
    {<< " ", "\n" >>, << " ", "x", " ", " ", "y", "\n" >>, SentenceText(1, << " " >>)}
        \cup {SentenceText(n, << " " >>) : n \in (MaxSentences - 2)..MaxSentences}
\* texts handed to _sliding_window directly may hold any whitespace
WindowTexts ==
    ParagraphTexts
        \cup {SentenceText(n, << " " >>) : n \in 2..MaxSentences}
        \cup {SentenceText(n, << "\n", " " >>) : n \in 2..MaxSentences}
        \cup {<< >>, << "a", ".", "b", "." >>, << "a", ".", " " >>}

\* table rows: a filled one, one with an empty cell, an empty one, one holding
\* separators only
RowFilled == << << " ", "x", " ", " ", "y" >>, << "z" >> >>
RowHalf == << << >>, << "w" >> >>
RowBlank == << << " " >>, << >> >>
RowPipes == << << "|" >>, << " ", "|" >> >>
TableA == << RowFilled, RowBlank, RowHalf >>
TableB == << RowPipes, RowHalf >>
TableLists == {<< >>, << TableA >>, << TableB, TableA >>, << << >>, TableB >>}

ParagraphLists ==
    UNION {[1..n -> ParagraphTexts] : n \in 0..MaxParagraphs}
Documents ==
    {[paragraphs |-> ps, tables |-> ts] : ps \in ParagraphLists, ts \in TableLists}

\* ------------------------------------------------ core/ingestion.py: the steps
\* DocProcessor(max_chars, window_size, overlap): the arguments are stored as
\* they are
Construct(max_chars, window_size, overlap) ==
    /\ processor = << >>
    /\ processor' = << [max_chars |-> max_chars, window_size |-> window_size,
                        overlap |-> overlap] >>
    /\ UNCHANGED << coreVars, remembered, provisionVars, cleaned, loop,
                    document, produced, windowed >>

\* a .docx file with content d is there, for a run that calls process
WriteDocument(d) ==
    /\ document = << >> /\ windowed = << >> /\ cleaned = << >>
    /\ document' = << d >>
    /\ UNCHANGED << coreVars, remembered, provisionVars, cleaned, loop,
                    processor, produced, windowed >>

\* chunks = processor.process(file_path)
ProcessDocument ==
    /\ processor # << >> /\ document # << >> /\ produced = << >>
    /\ produced' = << Process(processor[1], document[1]) >>
    /\ UNCHANGED << coreVars, remembered, provisionVars, cleaned, loop,
                    processor, document, windowed >>

\* chunks = processor._sliding_window(text, 0, 'paragraph'), in a run that
\* calls the splitter alone
CallSlidingWindow(text) ==
    /\ processor # << >> /\ document = << >> /\ windowed = << >>
    /\ cleaned = << >>
    /\ windowed' = << [text |-> text,
                       chunks |-> SlidingWindow(processor[1], text, 0, "paragraph")] >>
    /\ UNCHANGED << coreVars, remembered, provisionVars, cleaned, loop,
                    processor, document, produced >>

\* every text of up to MaxTextLen characters out of a space, a newline, a
\* letter and a sentence end
MaxTextLen == 5
ShortTexts == UNION {[1..n -> {" ", "\n", "a", "."}] : n \in 0..MaxTextLen}

\* cleaned = processor._clean_text(raw_text), and the same of the result, in a
\* run that calls the cleaner alone
CallCleanText(text) ==
    /\ processor # << >> /\ document = << >> /\ windowed = << >>
    /\ cleaned = << >>
    /\ cleaned' = << [text |-> text, once |-> CleanText(text),
                      twice |-> CleanText(CleanText(text))] >>
    /\ UNCHANGED << coreVars, remembered, provisionVars, processor, document,
                    produced, windowed, loop >>

IngestNext ==
    \/ \E max_chars \in {SmallMaxChars, DefaultMaxChars},
          window_size \in 1..MaxWindow, overlap \in 0..MaxWindow :
            Construct(max_chars, window_size, overlap)
    \/ \E d \in Documents : WriteDocument(d)
    \/ ProcessDocument
    \/ \E text \in WindowTexts : CallSlidingWindow(text)

IngestSpec == Init /\ [][IngestNext]_vars

\* A processor with the default arguments cleans one text.
CleanNext ==
    \/ Construct(DefaultMaxChars, 4, 1)
    \/ \E text \in ShortTexts : CallCleanText(text)

CleanSpec == Init /\ [][CleanNext]_vars

\* _sliding_window statement by statement: the call up to the loop, then one
\* iteration of the loop at a time.
\* lines 88-100: split, filter, the two early returns, chunks = [], stride
StartSlidingWindow(text) ==
    /\ processor # << >> /\ loop = << >>
    /\ document = << >> /\ windowed = << >> /\ cleaned = << >>
    /\ LET sentences == Sentences(text)
           call == [text |-> text, sentences |-> sentences, i |-> 0,
                    chunks |-> << >>, pc |-> "for"]
       IN  loop' = IF sentences = << >>
                   THEN << [call EXCEPT !.pc = "done"] >>
                   ELSE IF Len(sentences) <= processor[1].window_size
                   THEN << [call EXCEPT !.pc = "done",
                               !.chunks = << Chunk(text, 0, "paragraph", << >>) >>] >>
                   ELSE << call >>
    /\ UNCHANGED << coreVars, remembered, provisionVars, processor, document,
                    produced, windowed, cleaned >>

\* lines 102-111: range(0, len(sentences), stride) is exhausted, or it gives
\* the next i and the body runs: window, join, append, break or go on
LoopStep ==
    /\ loop # << >> /\ loop[1].pc = "for"
    /\ LET l == loop[1]
           p == processor[1]
           chunk_text == Join(Slice(l.sentences, l.i, l.i + p.window_size), << " " >>)
           appended == IF chunk_text # << >>
                     THEN Append(l.chunks, Chunk(chunk_text, 0, "paragraph", << >>))
                     ELSE l.chunks
       IN  loop' = IF l.i >= Len(l.sentences)
                   THEN << [l EXCEPT !.pc = "done"] >>
                   ELSE IF l.i + p.window_size >= Len(l.sentences)
                   THEN << [l EXCEPT !.chunks = appended, !.pc = "done"] >>
                   ELSE << [l EXCEPT !.chunks = appended, !.i = l.i + Stride(p)] >>
    /\ UNCHANGED << coreVars, remembered, provisionVars, processor, document,
                    produced, windowed, cleaned >>

SlideNext ==
    \/ \E window_size \in 1..MaxWindow, overlap \in 0..MaxWindow :
          Construct(DefaultMaxChars, window_size, overlap)
    \/ \E text \in WindowTexts : StartSlidingWindow(text)
    \/ LoopStep
\* the thread that runs the loop keeps running
SlideLiveSpec == Init /\ [][SlideNext]_vars /\ WF_vars(LoopStep)

\* ------------------- core/search_engine.py: a run of _ensure_model_downloaded
\* the files whose per-file fetch a run has requested, those it has fetched
Requested(r) == {f \in FileNames : r.task[f] # "none"}
Fetched(r) == {f \in FileNames : r.task[f] = "ok"}
Finished(r) == {f \in FileNames : r.task[f] \in {"ok", "failed"}}
Running(r) == {f \in FileNames : r.task[f] = "running"}
RunOver == run.pc \in {"returned", "raised"}

\* the model directory is found with contents d before the first run
FindDirectory(d) ==
    /\ run.pc = "idle" /\ last_run = NoLastRun /\ local_dir = [f \in FileNames |-> Absent]
    /\ d # local_dir
    /\ local_dir' = d
    /\ UNCHANGED << coreVars, remembered, ingestVars, resolved, run, last_run >>

\* _ensure_model_downloaded is called; the run before it, if any, is over
StartRun(env) ==
    /\ run.pc \in {"idle", "returned", "raised"}
    /\ last_run' = IF run.pc = "idle" THEN last_run
                   ELSE [outcome |-> run.pc, remote_ok |-> run.remote_ok,
                         fetched |-> Fetched(run)]
    /\ run' = [NoRun EXCEPT !.pc = "check", !.env = env]
    /\ UNCHANGED << coreVars, remembered, ingestVars, resolved, local_dir >>

\* lines 102-118: the remote list is fetched and compared with the directory
CheckRemote ==
    /\ run.pc = "check"
    /\ LET files_to_download == CollectMissingFiles(local_dir, Manifest)
       IN  run' = [run EXCEPT !.remote_ok = TRUE,
                              !.files_to_download = files_to_download,
                              !.pc = IF files_to_download = << >>
                                     THEN "returned" ELSE "submit"]
    /\ UNCHANGED << coreVars, remembered, ingestVars, resolved, local_dir, last_run >>

\* lines 119-126: the remote check raised; the offline heuristic decides
CheckRemoteFails ==
    /\ run.pc = "check"
    /\ run' = [run EXCEPT !.remote_ok = FALSE,
                          !.pc = IF IsModelCompleteOffline(local_dir)
                                 THEN "returned" ELSE "snapshot"]
    /\ UNCHANGED << coreVars, remembered, ingestVars, resolved, local_dir, last_run >>

\* lines 131-137: snapshot_download brings every file of the artifact
SnapshotDownload ==
    /\ run.pc = "snapshot"
    /\ local_dir' = [f \in FileNames |-> FullSize]
    /\ run' = [run EXCEPT !.snapshot = TRUE, !.pc = "returned"]
    /\ UNCHANGED << coreVars, remembered, ingestVars, resolved, last_run >>

\* snapshot_download raises after bringing the files of `got`
SnapshotFails(got) ==
    /\ run.pc = "snapshot"
    /\ local_dir' = [f \in FileNames |-> IF f \in got THEN FullSize ELSE local_dir[f]]
    /\ run' = [run EXCEPT !.snapshot = TRUE, !.pc = "raised"]
    /\ UNCHANGED << coreVars, remembered, ingestVars, resolved, last_run >>

\* lines 139-157: one hf_hub_download task per file is submitted to the pool
Submit ==
    /\ run.pc = "submit"
    /\ run' = [run EXCEPT
                 !.task = [f \in FileNames |->
                             IF \E k \in 1..Len(run.files_to_download) :
                                   run.files_to_download[k] = f
                             THEN "queued" ELSE "none"],
                 !.pc = "await"]
    /\ UNCHANGED << coreVars, remembered, ingestVars, resolved, local_dir, last_run >>

\* a free worker of the pool takes the oldest queued task
WorkerStart(f) ==
    /\ run.pc \in {"await", "shutdown"}
    /\ run.task[f] = "queued"
    /\ Cardinality(Running(run)) <
          ResolveDownloadWorkers(run.env, Len(run.files_to_download))
    /\ \E k \in 1..Len(run.files_to_download) :
          /\ run.files_to_download[k] = f
          /\ \A m \in 1..(k - 1) : run.task[run.files_to_download[m]] # "queued"
    /\ run' = [run EXCEPT !.task[f] = "running"]
    /\ UNCHANGED << coreVars, remembered, ingestVars, resolved, local_dir, last_run >>

\* hf_hub_download of f returns: the file is in the directory, whole
TransferOK(f) ==
    /\ run.task[f] = "running"
    /\ local_dir' = [local_dir EXCEPT ![f] = FullSize]
    /\ run' = [run EXCEPT !.task[f] = "ok"]
    /\ UNCHANGED << coreVars, remembered, ingestVars, resolved, last_run >>

\* hf_hub_download of f raises: the file in the directory is as it was
TransferFails(f) ==
    /\ run.task[f] = "running"
    /\ run' = [run EXCEPT !.task[f] = "failed"]
    /\ UNCHANGED << coreVars, remembered, ingestVars, resolved, local_dir, last_run >>

\* faulty variant: a failed transfer is printed and the loop goes on
AfterFailureGoOn(r, f) == [r EXCEPT !.seen = @ \cup {f}]
\* line 167: raise, out of the loop and into the exit of the pool
AfterFailureRaise(r, f) == [r EXCEPT !.seen = @ \cup {f}, !.pc = "shutdown"]

\* faulty variant: the count follows the transfers the workers have finished
CountFetched(r) == Cardinality(Fetched(r))
\* line 163: completed += 1, in the thread that iterates as_completed
CountCompleted(r) == r.completed + 1

\* lines 159-167: as_completed yields a finished future; its result is taken
TakeResult(f) ==
    /\ run.pc = "await"
    /\ f \in Finished(run) \ run.seen
    /\ run' = IF run.task[f] = "ok"
              THEN [run EXCEPT !.seen = @ \cup {f}, !.completed = CountCompleted(run)]
              ELSE AfterFailureRaise(run, f)
    /\ UNCHANGED << coreVars, remembered, ingestVars, resolved, local_dir, last_run >>

\* line 169: every future was taken, the pool is left, the run returns
LoopEnds ==
    /\ run.pc = "await"
    /\ run.seen = Requested(run)
    /\ run' = [run EXCEPT !.pc = "returned"]
    /\ UNCHANGED << coreVars, remembered, ingestVars, resolved, local_dir, last_run >>

\* lines 148, 170-172: leaving the pool waits for every submitted task, then
\* the error is raised to the caller
RaiseAfterShutdown ==
    /\ run.pc = "shutdown"
    /\ Finished(run) = Requested(run)
    /\ run' = [run EXCEPT !.pc = "raised"]
    /\ UNCHANGED << coreVars, remembered, ingestVars, resolved, local_dir, last_run >>

WorkerEnvs == {EnvUnset, EnvInt(1)}

ProvisionNext ==
    \/ \E d \in Directories : FindDirectory(d)
    \/ \E env \in WorkerEnvs : StartRun(env)
    \/ CheckRemote \/ CheckRemoteFails
    \/ SnapshotDownload
    \/ \E got \in SUBSET FileNames : SnapshotFails(got)
    \/ Submit
    \/ \E f \in FileNames : WorkerStart(f) \/ TransferOK(f) \/ TransferFails(f)
                              \/ TakeResult(f)
    \/ LoopEnds \/ RaiseAfterShutdown

ProvisionSpec == Init /\ [][ProvisionNext]_vars

----------------------------------------------------------------------------
\* The pool size on its own: every setting of MODEL_DOWNLOAD_WORKERS against
\* every number of files to fetch.
MaxRequested == 10
MaxTotalFiles == 10
EnvValues ==
    {EnvUnset, EnvJunk} \cup {EnvInt(n) : n \in (0 - MaxRequested)..MaxRequested}

\* lines 139-140: the files to fetch are counted and the pool size is resolved
CallResolveWorkers(env, total_files) ==
    /\ resolved' = << [env |-> env, total_files |-> total_files,
                       max_workers |-> ResolveDownloadWorkers(env, total_files)] >>
    /\ UNCHANGED << coreVars, remembered, ingestVars, local_dir, run, last_run >>

WorkersNext ==
    \E env \in EnvValues, total_files \in 1..MaxTotalFiles :
        CallResolveWorkers(env, total_files)
WorkersSpec == Init /\ [][WorkersNext]_vars

\* ------------------------------------------------------------------ properties
NoLoadRunning == \A t \in Threads : ~InLoad(t)
\* §4.6: EMPTY (no chunks, no vectors) and LOADED (as many vectors as chunks)
EngineEmpty == chunks = << >> /\ doc_vectors = NoVectors
EngineLoaded ==
    /\ chunks # << >>
    /\ doc_vectors # NoVectors
    /\ Len(doc_vectors[1]) = Len(chunks)
SearchDone(t) == pc[t] = "done" /\ op[t] = "search_query"
LoadedDoc(path) == ProcessOutcome(path).chunks

\* C1: when no load_document call is running and the last one returned
\* normally (or none was made yet), the engine is EMPTY or LOADED; a
\* load_document call with an empty chunk list never raises and leaves the
\* engine EMPTY.
C1_EmptyOrLoaded ==
    /\ ( /\ engine_instance # NoInstance
         /\ NoLoadRunning
         /\ hist.last_load.outcome \in {"none", "ok"}
         /\ hist.last_load.alone )
       => (EngineEmpty \/ EngineLoaded)
    /\ ( /\ hist.last_load.outcome # "none"
         /\ LoadedDoc(hist.last_load.path) = << >> )
       => /\ hist.last_load.outcome = "ok"
          /\ (NoLoadRunning /\ hist.last_load.alone) => EngineEmpty

\* a loaded document has been replaced by an empty chunk list
C1_Witness ==
    /\ NoLoadRunning
    /\ hist.last_load.outcome = "ok"
    /\ hist.last_load.path = "empty.docx"
    /\ hist.replaced
    /\ EngineEmpty

\* C2: a load_document call whose encode call raised leaves the engine with
\* the (chunks, vectors) pair it held when the call was entered.
C2_AtomicReplace ==
    \A t \in Threads :
        ( /\ pc[t] = "done"
          /\ op[t] = "process_file_for_search"
          /\ result[t].outcome = "EncodeError"
          /\ undisturbed[t] )
        => result[t].state_kept

\* C3: a search that overlaps a load_document call pairs every coarse hit with
\* the chunk whose vector produced it: every corpus id of the coarse stage
\* indexes a chunk of the list it reads, and that chunk's vector is the row
\* the hit came from.
C3_SearchReadsOnePair ==
    \A t \in Threads :
        /\ pc[t] = "s303" =>
              \A i \in 1..Len(locals[t].hits) :
                  Embed(locals[t].cross_inp[i][2])
                      = locals[t].corpus[locals[t].hits[i].corpus_id + 1]
        /\ SearchDone(t) => result[t].outcome # "IndexError"

\* C4: a search on an EMPTY engine returns the empty list, does not raise and
\* calls neither model, whatever the query and top_k.
C4_EmptySearch ==
    \A t \in Threads :
        (engine_instance # NoInstance /\ EngineEmpty /\ undisturbed[t]) =>
            /\ InSearch(t) => (pc[t] = "s269" /\ locals[t].model_calls = 0)
            /\ SearchDone(t) => /\ result[t].outcome = "ok"
                                /\ result[t].value = << >>
                                /\ result[t].model_calls = 0

\* a search has returned on an engine whose last load was an empty chunk list
C4_Witness ==
    \E t \in Threads :
        /\ SearchDone(t)
        /\ undisturbed[t]
        /\ EngineEmpty
        /\ hist.last_load.path = "empty.docx"
        /\ args[t].top_k = MaxTopK

\* C5: a search_query call made before any document was loaded returns the
\* empty list and does not raise.
C5_QueryBeforeLoad ==
    \A t \in Threads :
        (SearchDone(t) /\ ~hist.load_called) =>
            (result[t].outcome = "ok" /\ result[t].value = << >>)

\* C6 as stated: the initialization body is executed at most once in the
\* process, every caller receives the same instance, and no run of the body
\* starts after a successful one.
C6_BodyAtMostOnce ==
    /\ hist.body_runs <= 1
    /\ Cardinality(hist.handles) <= 1
    /\ hist.late_runs = 0

\* C6, amended: the initialization body runs to completion at most once, never
\* in two threads at once and never again after it has completed (a run that
\* raised may be followed by another run); every init_engine call that returns
\* returns the one stored instance.
C6_InitOnce ==
    /\ hist.body_ok <= 1
    /\ Cardinality({t \in Threads : InBody(t)}) <= 1
    /\ hist.late_runs = 0
    /\ hist.handles \subseteq {engine_instance}
    /\ NoInstance \notin hist.handles
    /\ \A t \in Threads :
          (pc[t] = "done" /\ op[t] = "init_engine" /\ result[t].outcome = "ok")
          => result[t].handle = engine_instance

\* both threads have called init_engine and hold the handle, after one run of
\* the body
C6_Witness ==
    /\ hist.body_runs = 1
    /\ hist.body_ok = 1
    /\ \A t \in Threads :
          /\ pc[t] = "done"
          /\ op[t] = "init_engine"
          /\ result[t].outcome = "ok"
          /\ result[t].handle = 1

\* C7: a model is loaded only after its artifact's provisioning has returned;
\* a stored engine handle is a fully initialized engine; when initialization
\* raises, the error reaches the caller and no handle is stored; load_document
\* and search only ever run on a fully initialized engine.
FullyInitialized == initialized /\ embedder = "loaded" /\ reranker = "loaded"

C7_AllOrNothing ==
    /\ embedder = "loaded" => "bge-m3" \in provisioned
    /\ reranker = "loaded" => "bge-reranker-large" \in provisioned
    /\ engine_instance # NoInstance => FullyInitialized
    /\ \A t \in Threads :
          /\ (pc[t] = "done" /\ result[t].outcome = "InitError")
             => result[t].handle = NoInstance
          /\ pc[t] = "ie_raise" => engine_instance = NoInstance
          /\ (InLoad(t) \/ InSearch(t)) => FullyInitialized

\* initialization has raised after the embedding model was loaded
C7_Witness ==
    \E t \in Threads :
        /\ pc[t] = "done"
        /\ result[t].outcome = "InitError"
        /\ embedder = "loaded"
        /\ reranker = "unset"
        /\ engine_instance = NoInstance

\* C8: after a load_document call that returned normally the chunk list is
\* exactly the list that call was given, and every result of a later search is
\* one of its chunks.
FromChunk(r, c) ==
    /\ r.text = c.text
    /\ r.original_index = c.original_index
    /\ r.source_type = c.source_type
    /\ r.metadata = c.metadata

C8_LoadReplaces ==
    (NoLoadRunning /\ hist.last_load.outcome = "ok" /\ hist.last_load.alone) =>
        LET doc == LoadedDoc(hist.last_load.path)
        IN  /\ chunks = doc
            /\ \A t \in Threads :
                  (SearchDone(t) /\ undisturbed[t]) =>
                      \A i \in 1..Len(result[t].value) :
                          \E j \in 1..Len(doc) : FromChunk(result[t].value[i], doc[j])

\* b.docx has replaced another document and a search has returned its chunks
C8_Witness ==
    /\ hist.replaced
    /\ hist.last_load.outcome = "ok"
    /\ hist.last_load.path = "b.docx"
    /\ \E t \in Threads :
          SearchDone(t) /\ undisturbed[t] /\ Len(result[t].value) = 2

\* The coarse candidate set of a search on a LOADED engine, stated from the
\* scores alone: the chunks with fewer than min(max(top_k, 10), n) chunks more
\* similar to the query.
EngineConsistent ==
    /\ chunks # << >>
    /\ doc_vectors = << EncodeBatch(ChunkTexts(chunks)) >>
CosOf(q, c) == CosSim(Embed(q), Embed(c.text))
Candidates(q, top_k) ==
    {j \in 1..Len(chunks) :
        Cardinality({d \in 1..Len(chunks) : CosOf(q, chunks[d]) > CosOf(q, chunks[j])})
            < Min(Max(top_k, 10), Len(chunks))}
CleanSearchDone(t) ==
    /\ SearchDone(t)
    /\ undisturbed[t]
    /\ result[t].outcome = "ok"
    /\ EngineConsistent

\* C9: the results of a search on a LOADED engine are in non-increasing order
\* of rerank score and are the best-reranked candidates of the coarse set: each
\* is a candidate carrying its own rerank score, no candidate left out scores
\* higher than a returned one, and for top_k >= 1 the first result has the
\* highest rerank score of the coarse set.
C9_RerankOrder ==
    \A t \in Threads :
        CleanSearchDone(t) =>
            LET R == result[t].value
                q == args[t].text
                cand == Candidates(q, args[t].top_k)
                kept == {j \in cand : \E i \in 1..Len(R) : R[i].text = chunks[j].text}
            IN  /\ \A i, j \in 1..Len(R) : i < j => R[i].score >= R[j].score
                /\ \A i \in 1..Len(R) :
                      \E j \in cand : /\ R[i].text = chunks[j].text
                                      /\ R[i].score = RerankScore(q, chunks[j].text)
                /\ \A j \in cand \ kept : \A i \in 1..Len(R) :
                      RerankScore(q, chunks[j].text) <= R[i].score
                /\ args[t].top_k >= 0 =>
                      Cardinality(kept) = Min(args[t].top_k, Cardinality(cand))
                /\ args[t].top_k >= 1 =>
                      \A j \in cand : RerankScore(q, chunks[j].text) <= R[1].score

\* the reranker has overridden the coarse order: the first of three results is
\* less similar to the query than the last, and the coarse best is not returned
C9_Witness ==
    \E t \in Threads :
        /\ CleanSearchDone(t)
        /\ Len(chunks) > CoarseFloor
        /\ args[t].top_k = 3
        /\ Len(result[t].value) = 3
        /\ result[t].value[1].initial_score < result[t].value[3].initial_score
        /\ \E j \in 1..Len(chunks) :
              /\ \A d \in 1..Len(chunks) :
                    CosOf(args[t].text, chunks[d]) <= CosOf(args[t].text, chunks[j])
              /\ \A i \in 1..3 : result[t].value[i].text # chunks[j].text

\* C10: a search returns at most top_k results for top_k >= 0, exactly
\* min(top_k, number of chunks) on a LOADED engine, and none for top_k = 0.
C10_ResultCount ==
    \A t \in Threads :
        (SearchDone(t) /\ args[t].top_k >= 0) =>
            /\ Len(result[t].value) <= args[t].top_k
            /\ CleanSearchDone(t) =>
                  Len(result[t].value) = Min(args[t].top_k, Len(chunks))
            /\ args[t].top_k = 0 => result[t].value = << >>

\* more results were asked for than the loaded document has chunks
C10_Witness ==
    \E t \in Threads :
        /\ CleanSearchDone(t)
        /\ args[t].top_k > Len(chunks)
        /\ Len(chunks) > CoarseFloor
        /\ Len(result[t].value) = Len(chunks)

\* result r of a search for q is built from the loaded chunk c and carries
\* c's own two scores
BuiltFrom(r, q, c) ==
    /\ FromChunk(r, c)
    /\ r.score = RerankScore(q, c.text)
    /\ r.initial_score = CosOf(q, c)

\* C11: every result of a search that returned is built from one loaded chunk:
\* its text, original_index, source_type and metadata are that chunk's, its
\* score is the rerank score of (query, that chunk's text) and its
\* initial_score is the coarse similarity of that same chunk.
C11_ResultFromChunk ==
    \A t \in Threads :
        (SearchDone(t) /\ result[t].outcome = "ok") =>
            \A i \in 1..Len(result[t].value) :
                \E j \in 1..Len(chunks) :
                    BuiltFrom(result[t].value[i], args[t].text, chunks[j])

\* the same on an engine whose vectors are the encodings of its chunks
ResultsBuiltFromChunksWhenConsistent ==
    \A t \in Threads :
        CleanSearchDone(t) =>
            \A i \in 1..Len(result[t].value) :
                \E j \in 1..Len(chunks) :
                    BuiltFrom(result[t].value[i], args[t].text, chunks[j])

\* a step of a search_query call of t
SearchStep(t) == op[t] = "search_query" /\ pc'[t] # pc[t]
\* t holds the results of a search made with the remembered arguments on the
\* remembered engine state
RepeatedSearchDone(t) ==
    /\ SearchDone(t)
    /\ result[t].outcome = "ok"
    /\ remembered.valid
    /\ remembered.text = args[t].text
    /\ remembered.top_k = args[t].top_k
    /\ remembered.chunks = chunks
    /\ remembered.doc_vectors = doc_vectors

\* C12: no step of a search changes the chunk list or the vector matrix, and
\* a search repeated with the same query and top_k on the same engine state
\* returns the same results, in the same order, with the same scores.
C12_SearchKeepsState ==
    /\ [][\A t \in Threads :
            SearchStep(t) => (chunks' = chunks /\ doc_vectors' = doc_vectors)]_vars
    /\ [](\A t \in Threads :
            RepeatedSearchDone(t) => result[t].value = remembered.value)

\* a repeated search on the large document returned several results
C12_Witness ==
    \E t \in Threads :
        /\ RepeatedSearchDone(t)
        /\ Len(chunks) > CoarseFloor
        /\ Len(result[t].value) = 3
        /\ result[t].value = remembered.value

\* ------------------------------------------------- properties of ingestion
Processed == produced # << >>
IsParagraphChunk(c) == c.source_type = "paragraph"
IsTableChunk(c) == c.source_type = "table"
\* the position in text s of the first occurrence of character ch
FirstPosition(s, ch) ==
    IF \E k \in 1..Len(s) : s[k] = ch
    THEN CHOOSE k \in 1..Len(s) : s[k] = ch /\ \A m \in 1..(k - 1) : s[m] # ch
    ELSE 0
\* where in its paragraph the text of paragraph chunk c starts
StartInParagraph(c) ==
    FirstPosition(CleanText(document[1].paragraphs[c.original_index + 1]), c.text[1])

\* C15: process returns the chunks in document order: no table chunk before a
\* paragraph chunk, paragraph chunks by paragraph index with the chunks of one
\* paragraph in the order of their windows, table chunks by table index and
\* then by row index.
C15_DocumentOrder ==
    Processed =>
        LET out == produced[1]
        IN  \A i, j \in 1..Len(out) :
                i < j =>
                    /\ ~(IsTableChunk(out[i]) /\ IsParagraphChunk(out[j]))
                    /\ (IsParagraphChunk(out[i]) /\ IsParagraphChunk(out[j])) =>
                          \/ out[i].original_index < out[j].original_index
                          \/ /\ out[i].original_index = out[j].original_index
                             /\ StartInParagraph(out[i]) < StartInParagraph(out[j])
                    /\ (IsTableChunk(out[i]) /\ IsTableChunk(out[j])) =>
                          \/ out[i].original_index < out[j].original_index
                          \/ /\ out[i].original_index = out[j].original_index
                             /\ out[i].metadata[1] < out[j].metadata[1]

\* a document with a split paragraph after a plain one, and two tables
C15_Witness ==
    /\ Processed
    /\ \E i, j, k, l, m \in 1..Len(produced[1]) :
          /\ i < j /\ j < k /\ k < l /\ l < m
          /\ IsParagraphChunk(produced[1][i]) /\ produced[1][i].original_index = 0
          /\ IsParagraphChunk(produced[1][j]) /\ produced[1][j].original_index = 1
          /\ IsParagraphChunk(produced[1][k]) /\ produced[1][k].original_index = 1
          /\ IsTableChunk(produced[1][l]) /\ produced[1][l].original_index = 0
          /\ IsTableChunk(produced[1][m]) /\ produced[1][m].original_index = 1

\* text a occurs in text b as a run of consecutive characters
OccursIn(a, b) ==
    \E k \in 0..(Len(b) - Len(a)) : SubSeq(b, k + 1, k + Len(a)) = a
\* how many elements of sequence s satisfy Test
CountOf(s, Test(_)) == Cardinality({k \in 1..Len(s) : Test(s[k])})

\* C16: a paragraph chunk's original_index is the index of a paragraph whose
\* cleaned text holds the chunk's text, every chunk made from one paragraph
\* carries that paragraph's index and source_type 'paragraph'; a table
\* chunk's original_index and row_index are the position of the row whose
\* joined cell texts it holds.
C16_Provenance ==
    Processed =>
        LET out == produced[1]
            d == document[1]
            p == processor[1]
        IN  /\ \A k \in 1..Len(out) :
                  \/ /\ IsParagraphChunk(out[k])
                     /\ out[k].metadata = << >>
                     /\ out[k].original_index \in 0..(Len(d.paragraphs) - 1)
                     /\ out[k].text # << >>
                     /\ OccursIn(out[k].text,
                                 CleanText(d.paragraphs[out[k].original_index + 1]))
                  \/ /\ IsTableChunk(out[k])
                     /\ out[k].original_index \in 0..(Len(d.tables) - 1)
                     /\ Len(out[k].metadata) = 1
                     /\ out[k].metadata[1] \in
                            0..(Len(d.tables[out[k].original_index + 1]) - 1)
                     /\ out[k].text =
                            RowText(d.tables[out[k].original_index + 1]
                                            [out[k].metadata[1] + 1])
            /\ \A i \in 0..(Len(d.paragraphs) - 1) :
                  LET text == CleanText(d.paragraphs[i + 1])
                      FromI(c) == IsParagraphChunk(c) /\ c.original_index = i
                  IN  CountOf(out, FromI) =
                          IF text = << >> THEN 0
                          ELSE IF Len(text) > p.max_chars
                               THEN Len(SlidingWindow(p, text, i, "paragraph"))
                               ELSE 1

\* a split paragraph that follows an empty one keeps its own index
C16_Witness ==
    /\ Processed
    /\ Len(document[1].paragraphs) = 2
    /\ CleanText(document[1].paragraphs[1]) = << >>
    /\ \E i, j \in 1..Len(produced[1]) :
          /\ i < j
          /\ IsParagraphChunk(produced[1][i]) /\ produced[1][i].original_index = 1
          /\ IsParagraphChunk(produced[1][j]) /\ produced[1][j].original_index = 1
    /\ \E k \in 1..Len(produced[1]) :
          IsTableChunk(produced[1][k]) /\ produced[1][k].metadata = << 2 >>

\* a row is not empty when some cell holds a character that is neither
\* whitespace nor the separator
RowHasContent(row) ==
    \E k \in 1..Len(row) : \E m \in 1..Len(row[k]) :
        row[k][m] \notin Whitespace \cup {"|"}

\* C17: for every row of every table, process emits one 'table' chunk when
\* the row is not empty without separators and whitespace, and none when it
\* is; the chunk's text is the row's cleaned cell texts joined by " | ", empty
\* cells kept, and no two table chunks have the same table and row index.
C17_TableRows ==
    Processed =>
        LET out == produced[1]
            d == document[1]
        IN  \A i \in 0..(Len(d.tables) - 1) :
                \A j \in 0..(Len(d.tables[i + 1]) - 1) :
                    LET row == d.tables[i + 1][j + 1]
                        OfRow(c) == /\ IsTableChunk(c)
                                    /\ c.original_index = i
                                    /\ c.metadata = << j >>
                    IN  /\ CountOf(out, OfRow) = IF RowHasContent(row) THEN 1 ELSE 0
                        /\ \A k \in 1..Len(out) :
                              OfRow(out[k]) =>
                                  /\ Len(row) = 2
                                  /\ out[k].text = CleanText(row[1])
                                        \o << " ", "|", " " >> \o CleanText(row[2])

\* a table with an empty row between two filled ones, one with an empty cell
C17_Witness ==
    /\ Processed
    /\ document[1].tables = << TableA >>
    /\ \E k \in 1..(Len(produced[1]) - 1) :
          /\ produced[1][k].metadata = << 0 >>
          /\ produced[1][k].text = << "x", " ", "y", " ", "|", " ", "z" >>
          /\ produced[1][k + 1].metadata = << 2 >>
          /\ produced[1][k + 1].text = << " ", "|", " ", "w" >>

\* the sentence positions (0-based) of the k-th window (k = 0, 1, ...) of n
\* sentences, for window size w and stride s
WindowPositions(k, n, w, s) == {m \in 0..(n - 1) : k * s <= m /\ m < k * s + w}
\* the number of windows: one more than the least k whose window reaches n
WindowCount(n, w, s) == 1 + CHOOSE k \in 0..n : k * s + w >= n
                                  /\ \A m \in 0..(k - 1) : m * s + w < n
\* a direct _sliding_window call with 0 <= overlap < window_size on a text of
\* more sentences than the window holds
SplitCase ==
    /\ windowed # << >>
    /\ processor[1].overlap < processor[1].window_size
    /\ Len(Sentences(windowed[1].text)) > processor[1].window_size

\* C18: with 0 <= o < w and n > w sentences, _sliding_window emits the
\* windows sentences[i : i+w] for i = 0, s, 2s, ... with s = max(1, w - o),
\* the last one being the first whose end i + w reaches n; each chunk text is
\* its window's sentences joined by one space, and two consecutive windows
\* share exactly o sentences.
C18_Windows ==
    SplitCase =>
        LET w == processor[1].window_size
            o == processor[1].overlap
            s == Max(1, w - o)
            sentences == Sentences(windowed[1].text)
            n == Len(sentences)
            out == windowed[1].chunks
        IN  /\ Len(out) = WindowCount(n, w, s)
            /\ \A k \in 1..Len(out) :
                  LET i == (k - 1) * s
                  IN  /\ out[k].text =
                            Join([m \in 1..(Min(i + w, n) - i) |-> sentences[i + m]],
                                 << " " >>)
                      /\ out[k].original_index = 0
                      /\ out[k].source_type = "paragraph"
                      /\ i + w >= n <=> k = Len(out)
            /\ \A k \in 1..(Len(out) - 1) :
                  Cardinality(WindowPositions(k - 1, n, w, s)
                                \cap WindowPositions(k, n, w, s)) = o

\* the case of the unit test: four sentences, w = 2, o = 1, three windows
C18_Witness ==
    /\ SplitCase
    /\ processor[1].window_size = 2 /\ processor[1].overlap = 1
    /\ Len(Sentences(windowed[1].text)) = 4
    /\ Len(windowed[1].chunks) = 3
    /\ windowed[1].chunks[2].text = << "b", "?", " ", "c", "." >>

\* C19: no DocProcessor instance has overlap >= window_size.
C19_NoInvalidProcessor ==
    processor # << >> => processor[1].overlap < processor[1].window_size

\* ------------------------------------- properties of process_file_for_search
\* t is in a process_file_for_search call on a path that does not exist or on
\* a legacy .doc file
BadPathCall(t) ==
    /\ op[t] = "process_file_for_search"
    /\ args[t].path \in {"missing.docx", "old.doc"}
\* the error DocProcessor.process raises for the path of t's call
PathError(t) ==
    IF args[t].path = "missing.docx" THEN "FileNotFoundError" ELSE "ValueError"
\* no step of such a call enters load_document or changes the engine's chunks
\* or vectors
BadPathStepsKeepEngine ==
    [][\A t \in Threads :
          (BadPathCall(t) /\ pc'[t] # pc[t]) =>
              /\ pc'[t] \notin {"ld246", "ld249", "ld256", "ld263"}
              /\ chunks' = chunks
              /\ doc_vectors' = doc_vectors]_vars

\* C20 as stated: process_file_for_search on a missing path ends with the
\* file-not-found error and on a legacy .doc file with the unsupported-format
\* error.
C20_BadPathRaises ==
    \A t \in Threads :
        (BadPathCall(t) /\ pc[t] = "done") => result[t].outcome = PathError(t)

\* C20, amended: such a call ends with that error, or with the error of
\* init_engine when it has to initialize the engine first and that fails; in
\* both cases load_document does not run and the engine's chunks and vectors
\* stay as they were.
C20_BadPathKeepsEngine ==
    /\ BadPathStepsKeepEngine
    /\ [](\A t \in Threads :
            (BadPathCall(t) /\ pc[t] = "done") =>
                \/ result[t].outcome = PathError(t)
                \/ /\ result[t].outcome = "InitError"
                   /\ engine_instance = NoInstance)

\* a legacy .doc file was refused while a.docx was loaded
C20_Witness ==
    \E t \in Threads :
        /\ BadPathCall(t)
        /\ pc[t] = "done"
        /\ args[t].path = "old.doc"
        /\ result[t].outcome = "ValueError"
        /\ chunks = LoadedDoc("a.docx")
        /\ EngineConsistent

\* ------------------------------------------------ properties of provisioning
\* the run in progress has done its completeness check
Checked == run.pc \notin {"idle", "check"}
\* the run transfers nothing: no per-file fetch and no snapshot fetch
TransfersNothing == Requested(run) = {} /\ ~run.snapshot
\* the file needs a fetch according to the remote list
NeedsFetch(f) ==
    \E k \in 1..Len(Manifest) :
        /\ Manifest[k].name = f
        /\ \/ local_dir[f] = Absent
           \/ Manifest[k].size # UnknownSize /\ local_dir[f] # Manifest[k].size

\* C13 as stated: the run that follows a run that returned normally transfers
\* no file.
C13_SecondRunTransfersNothing ==
    (last_run.outcome = "returned" /\ Checked) => TransfersNothing

\* C13, amended: the run that follows a run that returned normally transfers
\* no file when its remote check ends as that of the run before did (the list
\* is obtained in both, or in neither).
C13_FixedPoint ==
    (last_run.outcome = "returned" /\ Checked /\ run.remote_ok = last_run.remote_ok)
        => TransfersNothing

\* a run fetched files and returned; the next run, with the remote list again,
\* returned without a transfer
C13_Witness ==
    /\ last_run.outcome = "returned"
    /\ last_run.remote_ok
    /\ Cardinality(last_run.fetched) >= 2
    /\ run.pc = "returned"
    /\ run.remote_ok
    /\ TransfersNothing

\* a transfer of the run before failed, so that run raised
LastRunLostATransfer == last_run.outcome = "raised" /\ last_run.remote_ok
\* no run returns normally after one of its transfers failed; a file whose
\* transfer completed, in this run or the one before, stays whole on disk
FailureRaisesAndKeepsFiles ==
    /\ run.pc = "returned" => \A f \in FileNames : run.task[f] # "failed"
    /\ \A f \in Fetched(run) \cup last_run.fetched : local_dir[f] = FullSize
\* the run asks for no snapshot and for none of the files the run before
\* fetched, and what it submits is missing or size-mismatched at that time
RequestsOnlyWhatIsBroken ==
    /\ ~run.snapshot /\ run.pc # "snapshot"
    /\ Requested(run) \cap last_run.fetched = {}
    /\ Finished(run) = {} => \A f \in Requested(run) : NeedsFetch(f)

\* C14 as stated: a failed transfer makes the run raise, completed files stay
\* on disk, and the following run requests only files that are missing or
\* size-mismatched, never one the failed run completed.
C14_ResumeRequestsOnlyBroken ==
    /\ FailureRaisesAndKeepsFiles
    /\ (LastRunLostATransfer /\ Checked) => RequestsOnlyWhatIsBroken

\* C14, amended: the same for a following run that obtains the remote list; one
\* whose remote check fails transfers nothing or takes a full snapshot.
C14_ResumeWithRemoteList ==
    /\ FailureRaisesAndKeepsFiles
    /\ (LastRunLostATransfer /\ Checked /\ run.remote_ok) => RequestsOnlyWhatIsBroken
    /\ (LastRunLostATransfer /\ Checked /\ ~run.remote_ok) => Requested(run) = {}

\* the run before fetched one file and lost another; this run has submitted
\* the lost one only
C14_Witness ==
    /\ LastRunLostATransfer
    /\ last_run.fetched = {"config.json"}
    /\ run.remote_ok
    /\ run.pc = "await"
    /\ Requested(run) = {"model.safetensors"}
    /\ Finished(run) = {}

\* -------------------------------------------------- properties of _clean_text
IsNotWhitespace(c) == c \notin Whitespace
\* the whitespace runs of text s that lie between two other characters
InnerRuns(s) ==
    {k \in 1..(Len(s) - 1) :
        /\ s[k] \in Whitespace
        /\ s[k + 1] \notin Whitespace
        /\ \E m \in 1..(k - 1) : s[m] \notin Whitespace}

\* C21: _clean_text of a cleaned text is that text; a cleaned text neither
\* starts nor ends with whitespace, holds no whitespace but single spaces, and
\* has the other characters of the input in their order, with one space for
\* each whitespace run between them.
C21_CleanIdempotent ==
    cleaned # << >> =>
        LET x == cleaned[1].text
            c == cleaned[1].once
        IN  /\ cleaned[1].twice = c
            /\ c # << >> => (c[1] \notin Whitespace /\ c[Len(c)] \notin Whitespace)
            /\ \A k \in 1..Len(c) : c[k] \in Whitespace => c[k] = " "
            /\ \A k \in 1..(Len(c) - 1) :
                  ~(c[k] \in Whitespace /\ c[k + 1] \in Whitespace)
            /\ SelectSeq(c, IsNotWhitespace) = SelectSeq(x, IsNotWhitespace)
            /\ Cardinality({k \in 1..Len(c) : c[k] = " "})
                  = Cardinality(InnerRuns(x))

\* a text with whitespace at both ends and a mixed run inside
C21_Witness ==
    /\ cleaned # << >>
    /\ cleaned[1].text = << "\n", "a", " ", "\n", "." >>
    /\ cleaned[1].once = << "a", " ", "." >>
    /\ cleaned[1].twice = << "a", " ", "." >>

\* the elements of a sequence
Elements(seq) == {seq[k] : k \in 1..Len(seq)}
NoRepeats(seq) == \A i, j \in 1..Len(seq) : seq[i] = seq[j] => i = j
\* the run has obtained the remote list
CheckedWithList == Checked /\ run.remote_ok

\* C22: a run that has the remote list fetches the listed files that are
\* absent or whose size differs from a known remote size, each once, and no
\* other file; it starts no transfer when there is none, and takes no
\* snapshot.
C22_FetchesExactlyBroken ==
    CheckedWithList =>
        /\ NoRepeats(run.files_to_download)
        /\ Finished(run) = {} =>
              Elements(run.files_to_download) = {f \in FileNames : NeedsFetch(f)}
        /\ run.pc # "submit" => Requested(run) = Elements(run.files_to_download)
        /\ RunOver => Finished(run) = Requested(run)
        /\ run.files_to_download = << >> => run.pc = "returned"
        /\ ~run.snapshot /\ run.pc # "snapshot"

\* an absent file and one of the wrong size were fetched; the file of unknown
\* remote size and the one of the right size were left alone
C22_Witness ==
    /\ CheckedWithList
    /\ run.pc = "returned"
    /\ Fetched(run) = {"config.json", "model.safetensors"}
    /\ run.files_to_download = << "config.json", "model.safetensors" >>
    /\ last_run.outcome = "none"

\* the run could not obtain or evaluate the remote list
CheckedWithoutList == Checked /\ ~run.remote_ok
\* the three kinds of file the offline heuristic asks for
HasConfigWeightTokenizer ==
    /\ local_dir["config.json"] # Absent
    /\ \E f \in FileNames \cap WeightFiles : local_dir[f] # Absent
    /\ \E f \in FileNames \cap TokenizerFiles : local_dir[f] # Absent

\* C23: the offline heuristic decides only in a run whose remote check
\* failed; such a run never fetches file by file; it returns without any
\* transfer iff config.json, a weight file and a tokenizer file exist, and
\* otherwise goes to the single snapshot fetch.  A run that has the remote list
\* never takes a snapshot.
C23_OfflineFallback ==
    /\ (run.snapshot \/ run.pc = "snapshot") => CheckedWithoutList
    /\ CheckedWithoutList =>
          /\ Requested(run) = {} /\ run.files_to_download = << >>
          /\ run.pc \in {"snapshot", "returned", "raised"}
          /\ run.pc = "snapshot" => ~HasConfigWeightTokenizer /\ ~run.snapshot
          /\ (run.pc = "returned" /\ ~run.snapshot) => HasConfigWeightTokenizer
          /\ run.pc = "raised" => run.snapshot

\* the remote check of the first run failed on a directory the heuristic
\* rejects, and the snapshot was fetched
C23_Witness ==
    /\ CheckedWithoutList
    /\ run.snapshot /\ run.pc = "returned"
    /\ last_run = NoLastRun

\* the remote check failed on a complete-looking directory with a stale
\* weight file: nothing is transferred
C23_WitnessComplete ==
    /\ CheckedWithoutList
    /\ run.pc = "returned" /\ ~run.snapshot
    /\ local_dir["model.safetensors"] = StaleSize

\* the successful transfers whose result the as_completed loop has taken
ProcessedOK(r) == {f \in r.seen : r.task[f] = "ok"}
CompletedIsProcessed == run.completed = Cardinality(ProcessedOK(run))
CompletedAllAtReturn ==
    (run.pc = "returned" /\ run.files_to_download # << >>) =>
        run.completed = Len(run.files_to_download)
\* the counter moves by one with one more processed success; a new call
\* starts it again
CompletedStep ==
    run'.completed # run.completed =>
        \/ /\ run'.completed = run.completed + 1
           /\ \E f \in FileNames \ ProcessedOK(run) :
                 /\ run.task[f] = "ok"
                 /\ ProcessedOK(run') = ProcessedOK(run) \cup {f}
        \/ run'.pc = "check" /\ run'.completed = 0

\* C24: in every interleaving of the workers the count of completed
\* transfers is the number of successes processed so far, grows by one per
\* processed success, and is the number of files to fetch at a normal return
\* of the per-file recovery.
C24_CompletedCount ==
    /\ [](CompletedIsProcessed /\ CompletedAllAtReturn)
    /\ [][CompletedStep]_vars

\* two transfers have succeeded in the workers, one of them is processed
C24_Witness ==
    /\ run.pc = "await"
    /\ run.completed = 1
    /\ Cardinality(Fetched(run)) >= 2
    /\ Cardinality(ProcessedOK(run)) = 1

\* the configured worker count: 4 when the setting is absent or no integer,
\* at least 1 otherwise
Configured(env) ==
    IF ~env.set \/ ~env.parses THEN DefaultWorkers
    ELSE IF env.n < 1 THEN 1 ELSE env.n
\* m is the least of a, b and c
IsLeastOf(m, a, b, c) == m \in {a, b, c} /\ m <= a /\ m <= b /\ m <= c

\* C25: the number of workers is the least of the configured count, the
\* number of files to fetch and 8, so it lies between 1 and 8 and does not
\* exceed the number of files.
C25_WorkerCount ==
    \A k \in 1..Len(resolved) :
        LET r == resolved[k]
        IN  /\ IsLeastOf(r.max_workers, Configured(r.env), r.total_files, WorkersCap)
            /\ 1 <= r.max_workers /\ r.max_workers <= WorkersCap
            /\ r.max_workers <= r.total_files

\* more workers asked for than the cap, and more files than the cap
C25_Witness ==
    /\ resolved # << >>
    /\ resolved[1].env = EnvInt(WorkersCap + 1)
    /\ resolved[1].total_files = WorkersCap + 1
    /\ resolved[1].max_workers = WorkersCap

\* the search of t is about to call the reranker on a consistent engine
AtRerank(t) ==
    /\ op[t] = "search_query" /\ pc[t] = "s303"
    /\ undisturbed[t]
    /\ EngineConsistent
HitChunks(hits) == {hits[i].corpus_id + 1 : i \in 1..Len(hits)}

\* C26: on a LOADED engine with n chunks the reranker receives exactly
\* min(max(top_k, 10), n) pairs, those of the chunks most similar to the query
\* by cosine, and no chunk outside this set appears in the results, even when
\* its rerank score would be higher than a returned one.
C26_CoarseCandidates ==
    \A t \in Threads :
        /\ AtRerank(t) =>
              LET cand == Candidates(args[t].text, args[t].top_k)
                  pairs == locals[t].cross_inp
              IN  /\ Len(pairs) = Min(Max(args[t].top_k, 10), Len(chunks))
                  /\ Len(locals[t].hits) = Len(pairs)
                  /\ Cardinality(HitChunks(locals[t].hits)) = Len(pairs)
                  /\ HitChunks(locals[t].hits) = cand
                  /\ \A i \in 1..Len(pairs) :
                        pairs[i] = << args[t].text,
                                      chunks[locals[t].hits[i].corpus_id + 1].text >>
        /\ CleanSearchDone(t) =>
              LET cand == Candidates(args[t].text, args[t].top_k)
                  R == result[t].value
              IN  \A j \in 1..Len(chunks) :
                      j \notin cand =>
                          \A i \in 1..Len(R) : R[i].text # chunks[j].text

\* twelve chunks, ten candidates: the chunk returned first scores lower in the
\* reranker than a chunk that was not a candidate
C26_Witness ==
    \E t \in Threads :
        /\ CleanSearchDone(t)
        /\ Len(chunks) = MaxChunks
        /\ Len(result[t].value) >= 1
        /\ \E j \in 1..Len(chunks) :
              /\ j \notin Candidates(args[t].text, args[t].top_k)
              /\ RerankScore(args[t].text, chunks[j].text) > result[t].value[1].score

\* a search call with a negative top_k has ended
NegativeTopKDone(t) == SearchDone(t) /\ args[t].top_k < 0

\* C27: a search with a negative top_k is rejected before any model is
\* called: it calls neither the embedder nor the reranker and returns no
\* result.
C27_RejectsMalformed ==
    \A t \in Threads :
        NegativeTopKDone(t) =>
            /\ result[t].model_calls = 0
            /\ result[t].value = << >>

\* the sentences of a cleaned, non-empty text, counted on its characters: one
\* more than the spaces that follow a sentence end
SentenceCount(text) ==
    1 + Cardinality({k \in 1..(Len(text) - 1) :
                        text[k] \in SentenceEnds /\ text[k + 1] = " "})
\* the chunks that process made of paragraph i (0-based)
ChunksOfParagraph(i) ==
    LET OfParagraph(c) == c.source_type = "paragraph" /\ c.original_index = i
    IN  SelectSeq(produced[1], OfParagraph)

\* C28: a paragraph that is empty after cleaning yields no chunk; one whose
\* cleaned text is at most max_chars long, or has at most window_size
\* sentences, yields one chunk holding the whole cleaned text; more than one
\* chunk comes only from a paragraph longer than max_chars with more than
\* window_size sentences.
C28_ParagraphChunkCount ==
    Processed =>
        \A i \in 0..(Len(document[1].paragraphs) - 1) :
            LET text == CleanText(document[1].paragraphs[i + 1])
                out == ChunksOfParagraph(i)
                p == processor[1]
            IN  /\ text = << >> => out = << >>
                /\ ( /\ text # << >>
                     /\ \/ Len(text) <= p.max_chars
                        \/ SentenceCount(text) <= p.window_size )
                   => /\ Len(out) = 1
                      /\ out[1].text = text
                /\ Len(out) > 1 =>
                      /\ Len(text) > p.max_chars
                      /\ SentenceCount(text) > p.window_size
                /\ text # << >> => Len(out) >= 1

\* a blank paragraph, then one longer than max_chars that holds more
\* sentences than the window and is split
C28_Witness ==
    /\ Processed
    /\ Len(document[1].paragraphs) = 2
    /\ CleanText(document[1].paragraphs[1]) = << >>
    /\ ChunksOfParagraph(0) = << >>
    /\ Len(ChunksOfParagraph(1)) > 1

\* a paragraph longer than max_chars with no more sentences than the window
\* stays whole
C28_WitnessWhole ==
    /\ Processed
    /\ Len(document[1].paragraphs) = 1
    /\ Len(CleanText(document[1].paragraphs[1])) > processor[1].max_chars
    /\ SentenceCount(CleanText(document[1].paragraphs[1])) = processor[1].window_size
    /\ Len(ChunksOfParagraph(0)) = 1

\* a direct _sliding_window call that enters the window loop: more sentences
\* than the window holds, any overlap
LoopCase ==
    /\ windowed # << >>
    /\ Len(Sentences(windowed[1].text)) > processor[1].window_size
\* the sentences a..b (1-based) joined by one space
Run(sentences, a, b) == Join(SubSeq(sentences, a, b), << " " >>)

\* C29: the window loop loses no sentence: every sentence lies in a chunk,
\* every chunk is a run of consecutive sentences in their order, joined by
\* one space, and the last chunk ends with the last sentence, whatever the
\* overlap.  A text the loop is not entered for is returned whole.
C29_NoContentLost ==
    /\ LoopCase =>
          LET sentences == Sentences(windowed[1].text)
              n == Len(sentences)
              out == windowed[1].chunks
              IsRun(k, a, b) == a <= b /\ out[k].text = Run(sentences, a, b)
          IN  /\ out # << >>
              /\ \A k \in 1..Len(out) : \E a, b \in 1..n : IsRun(k, a, b)
              /\ \A m \in 1..n :
                    \E k \in 1..Len(out) :
                        \E a \in 1..m, b \in m..n : IsRun(k, a, b)
              /\ \E a \in 1..n : IsRun(Len(out), a, n)
    /\ (windowed # << >> /\ ~LoopCase /\ Sentences(windowed[1].text) # << >>) =>
          /\ Len(windowed[1].chunks) = 1
          /\ windowed[1].chunks[1].text = windowed[1].text

\* five sentences, windows of two without overlap: the last chunk is the
\* fifth sentence alone
C29_Witness ==
    /\ LoopCase
    /\ processor[1].window_size = 2 /\ processor[1].overlap = 0
    /\ Len(Sentences(windowed[1].text)) = 5
    /\ Len(windowed[1].chunks) = 3
    /\ windowed[1].chunks[3].text = Sentence(5)

\* an overlap larger than the window: the stride is 1
C29_WitnessOverlap ==
    /\ LoopCase
    /\ processor[1].overlap > processor[1].window_size
    /\ Len(windowed[1].chunks) = Len(Sentences(windowed[1].text)) - processor[1].window_size + 1

\* a _sliding_window call is running or over
SlideCalled == loop # << >>
SlideDone == loop # << >> /\ loop[1].pc = "done"
\* no more chunks than sentences, and the range is never exhausted: the loop
\* is left by its break
ChunksBounded ==
    SlideCalled =>
        /\ Len(loop[1].chunks) <= Len(loop[1].sentences)
        /\ loop[1].pc = "for" => loop[1].i < Len(loop[1].sentences)
\* the chunks of the statements are those of the function
SlideResult ==
    SlideDone =>
        loop[1].chunks = SlidingWindow(processor[1], loop[1].text, 0, "paragraph")
\* an iteration that goes on moves the window start forward
StartIncreases ==
    (SlideCalled /\ loop' # loop /\ loop'[1].pc = "for") => loop'[1].i > loop[1].i

\* C30: every _sliding_window call ends, for every window_size >= 1 and
\* overlap >= 0, overlap >= window_size included; the window start grows at
\* each iteration and there are at most as many chunks as sentences.
C30_Terminates ==
    /\ SlideCalled ~> SlideDone
    /\ [][StartIncreases]_vars
    /\ [](ChunksBounded /\ SlideResult)

\* a call with overlap >= window_size has ended after one window per stride
\* of 1
C30_Witness ==
    /\ SlideDone
    /\ processor[1].overlap >= processor[1].window_size
    /\ Len(loop[1].sentences) = MaxSentences
    /\ loop[1].i = MaxSentences - processor[1].window_size
    /\ Len(loop[1].chunks) = loop[1].i + 1
    /\ Len(loop[1].chunks) > 1

====
